---- MODULE Spec2Model ----
(***************************************************************************)
(* Personallist.js (RPG Maker MV plugin "Personals"), modelled as a state  *)
(* machine: the comment parser parseNpcBlocks, the personal list kept on   *)
(* $gameSystem with its upsert / removeId plugin commands, and the         *)
(* onPersonalAdded / onPersonalRemoved listener tables, the menu entry      *)
(* points, and Scene_PersonalList with its list window and its wrapped,     *)
(* paged description window.                                                *)
(*                                                                         *)
(* Strings are sequences of tokens.  A token is a piece of text: a field   *)
(* keyword ("ID:"), a digit, a letter, a blank or a comma.  No token is a  *)
(* prefix of another and no concatenation of non-keyword tokens spells a   *)
(* keyword, so startsWith(kw) is "the first token is kw", slice(kw.length) *)
(* is Tail, includes("NPC") is "some token is NPC".                        *)
(***************************************************************************)
EXTENDS Integers, Sequences, FiniteSets, TLC

VARIABLES
  hasList,       \* $gameSystem._personalList is defined
  personalList,  \* $gameSystem._personalList (<<>> while undefined)
  listeners,     \* Game_System.prototype._personalListeners
  pageIndex,     \* Game_Event._pageIndex of every map event
  lastCmd,       \* the plugin command that ran last, with its arguments
  calls,         \* the callback invocations made by the last plugin command
  list,          \* parser: the commands of the page consumed so far
  wantedId,      \* parser: the wantedId argument (<<>> is null)
  npc,           \* parser: the draft (<<>> is null, <<r>> an object)
  readingNote,   \* parser: continuation flag
  results,       \* parser: the records pushed so far
  pc,            \* parser: "idle", "scan" (inside forEach) or "done"
  enableInitial, \* the plugin parameter enableInitial
  menuEnabled,   \* $gameSystem._personalMenuEnabled (<<>> is undefined)
  toggled,       \* the Enable / Disable command that ran last on $gameSystem
  scene,         \* the scenes pushed over the map: "menu", "personal"
  hasCommand,    \* the menu's command window lists the Personals command
  geom,          \* the description window's contents: maxW, height, lh
  pages,         \* Window_PersonalDesc._pages
  pageIdx,       \* Window_PersonalDesc._pageIdx
  descActive,    \* Window_PersonalDesc.active
  drawn,         \* the lines the last refresh drew, top to bottom
  indicator,     \* the last refresh drew the page indicator
  lastDesc,      \* the last operation on the description window
  listData,      \* Window_PersonalList._data
  listIndex,     \* Window_PersonalList.index()
  listActive,    \* Window_PersonalList.active
  detailsActive, \* Scene_PersonalList._detailsActive
  header,        \* the data of Window_PersonalHeader (<<>> when cleared)
  error,         \* a handler threw a TypeError
  stack,         \* the plugin commands and dispatches that are running
  behaviour,     \* what each registered callback does when invoked
  seen           \* what isPersonalAdded gave when each callback was invoked

vars == << hasList, personalList, listeners, pageIndex, lastCmd, calls, list,
           wantedId, npc, readingNote, results, pc, enableInitial,
           menuEnabled, toggled, scene, hasCommand, geom, pages, pageIdx,
           descActive, drawn, indicator, lastDesc, listData, listIndex,
           listActive, detailsActive, header, error, stack, behaviour,
           seen >>

registryVars == << hasList, personalList, listeners, pageIndex, lastCmd,
                   calls >>

parserVars == << list, wantedId, npc, readingNote, results, pc >>

menuVars == << enableInitial, menuEnabled, toggled, scene, hasCommand >>

descVars == << pages, pageIdx, descActive, drawn, indicator, lastDesc >>

windowVars == << geom, pages, pageIdx, descActive, drawn, indicator, lastDesc,
                 listData, listIndex, listActive, detailsActive, header,
                 error >>

dispatchVars == << stack, behaviour, seen >>

----------------------------------------------------------------------------
(* Bounds of the model *)

\* longest page (in commands) fed to the parser line by line
MaxLines == 4

\* most callbacks registered in one behaviour
MaxRegs == 2

\* most arguments of one plugin command
MaxArgs == 2

----------------------------------------------------------------------------
(* JavaScript strings and numbers *)

Digits == << "0", "1", "2", "3", "4", "5", "6", "7", "8", "9" >>

IsDigit(t) == \E d \in 1..10 : Digits[d] = t

DigitVal(t) == (CHOOSE d \in 1..10 : Digits[d] = t) - 1

\* a number, or NaN
Num(v) == [nan |-> FALSE, val |-> v]

NaN == [nan |-> TRUE, val |-> 0]

RECURSIVE TrimStart(_)
TrimStart(s) ==
  IF s # <<>> /\ Head(s) = " " THEN TrimStart(Tail(s)) ELSE s

RECURSIVE TrimEnd(_)
TrimEnd(s) ==
  IF s # <<>> /\ s[Len(s)] = " " THEN TrimEnd(SubSeq(s, 1, Len(s) - 1)) ELSE s

\* String.prototype.trim
Trim(s) == TrimEnd(TrimStart(s))

\* String.prototype.startsWith, for a keyword token
StartsWith(s, kw) == s # <<>> /\ Head(s) = kw

\* String.prototype.includes, for a keyword token
Includes(s, kw) == \E i \in 1..Len(s) : s[i] = kw

\* String.prototype.split(","): "" splits into [""]
RECURSIVE SplitComma(_)
SplitComma(s) ==
  IF \A i \in 1..Len(s) : s[i] # ","
  THEN << s >>
  ELSE LET k == CHOOSE i \in 1..Len(s) :
                  s[i] = "," /\ \A j \in 1..(i - 1) : s[j] # ","
       IN << SubSeq(s, 1, k - 1) >> \o SplitComma(SubSeq(s, k + 1, Len(s)))

\* the value of the longest prefix of digits of s, continuing from acc
RECURSIVE DigitPrefix(_, _)
DigitPrefix(s, acc) ==
  IF s # <<>> /\ IsDigit(Head(s))
  THEN DigitPrefix(Tail(s), 10 * acc + DigitVal(Head(s)))
  ELSE acc

\* parseInt(s, 10): leading blanks skipped, an optional sign, then the
\* longest run of digits; NaN when there is no digit
ParseInt(s) ==
  LET t == TrimStart(s)
      neg == t # <<>> /\ Head(t) = "-"
      u == IF t # <<>> /\ Head(t) \in {"-", "+"} THEN Tail(t) ELSE t
  IN IF u # <<>> /\ IsDigit(Head(u))
     THEN Num(IF neg THEN 0 - DigitPrefix(u, 0) ELSE DigitPrefix(u, 0))
     ELSE NaN

\* Number.prototype.toString for an integer
RECURSIVE NatToStr(_)
NatToStr(n) ==
  IF n < 10 THEN << Digits[n + 1] >>
  ELSE NatToStr(n \div 10) \o << Digits[(n % 10) + 1] >>

IntToStr(n) == IF n < 0 THEN << "-" >> \o NatToStr(0 - n) ELSE NatToStr(n)

\* a JavaScript value handed to the API as an id: a number or a string
JsNum(n) == [t |-> "num", n |-> n, s |-> <<>>]

JsStr(s) == [t |-> "str", n |-> 0, s |-> s]

\* String(v)
String(v) == IF v.t = "num" THEN IntToStr(v.n) ELSE v.s

----------------------------------------------------------------------------
(* parseNpcBlocks *)

\* an event command: its code and parameters[0]
Cmd(code, text) == [code |-> code, text |-> text]

\* the object a "Type: NPC" line creates
NewNpc ==
  [ typeIsNPC |-> TRUE, id |-> <<>>, name |-> <<>>, category |-> <<>>,
    faceName |-> <<>>, faceIndex |-> Num(0), iconIndexes |-> <<>>,
    notes |-> <<>> ]

\* Array.prototype.filter(n => !isNaN(n)) after map(parseInt), as numbers
RECURSIVE NumbersOf(_)
NumbersOf(parts) ==
  IF parts = <<>> THEN <<>>
  ELSE LET n == ParseInt(Trim(Head(parts)))
       IN (IF n.nan THEN <<>> ELSE << n.val >>) \o NumbersOf(Tail(parts))

\* Array.prototype.slice(0, k)
SliceTo(a, k) == SubSeq(a, 1, IF Len(a) < k THEN Len(a) ELSE k)

\* the Icon: branch without its slice(0, 3)
IconIndexesUncut(rest) == NumbersOf(SplitComma(rest))

\* the Icon: branch, from the text after the keyword
IconIndexes(rest) == SliceTo(NumbersOf(SplitComma(rest)), 3)

\* the Face: branch: [fn, fi] = rest.split(","), faceName and faceIndex
FaceName(rest) == Trim(SplitComma(rest)[1])

FaceIndex(rest) ==
  LET parts == SplitComma(rest)
      fi == IF Len(parts) >= 2 /\ parts[2] # <<>> THEN parts[2] ELSE << "0" >>
  IN ParseInt(fi)

\* the parser's local state: npc, readingNote, results
ParserState(n, r, res) == [npc |-> n, readingNote |-> r, results |-> res]

ParserStart == ParserState(<<>>, FALSE, <<>>)

\* the filter of pushCurrent: !wantedId || npc.id === wantedId
Wanted(id, wanted) == wanted = <<>> \/ wanted[1] = <<>> \/ id = wanted[1]

\* pushCurrent without the test of npc.name
PushCurrentUnnamed(ps, wanted) ==
  IF /\ ps.npc # <<>>
     /\ ps.npc[1].typeIsNPC
     /\ ps.npc[1].id # <<>>
     /\ Wanted(ps.npc[1].id, wanted)
  THEN Append(ps.results, ps.npc[1])
  ELSE ps.results

\* pushCurrent: the results after it
PushCurrent(ps, wanted) ==
  IF /\ ps.npc # <<>>
     /\ ps.npc[1].typeIsNPC
     /\ ps.npc[1].name # <<>>
     /\ ps.npc[1].id # <<>>
     /\ Wanted(ps.npc[1].id, wanted)
  THEN Append(ps.results, ps.npc[1])
  ELSE ps.results

\* the if / else-if chain with an ID: line that starts the draft afresh
FieldLineIdResets(ps, line) ==
  LET d == ps.npc[1]
      rest == Tail(line)
  IN IF StartsWith(line, "ID:")
     THEN [ps EXCEPT !.npc = << [NewNpc EXCEPT !.id = Trim(rest)] >>]
     ELSE IF StartsWith(line, "Name:")
     THEN [ps EXCEPT !.npc = << [d EXCEPT !.name = Trim(rest)] >>]
     ELSE IF StartsWith(line, "Category:")
     THEN [ps EXCEPT !.npc = << [d EXCEPT !.category = Trim(rest)] >>]
     ELSE IF StartsWith(line, "Face:")
     THEN [ps EXCEPT !.npc = << [d EXCEPT !.faceName = FaceName(rest),
                                          !.faceIndex = FaceIndex(rest)] >>]
     ELSE IF StartsWith(line, "Icon:")
     THEN [ps EXCEPT !.npc = << [d EXCEPT !.iconIndexes = IconIndexes(rest)] >>]
     ELSE IF StartsWith(line, "Details:")
     THEN [ps EXCEPT !.npc = << [d EXCEPT !.notes = Trim(rest)] >>,
                     !.readingNote = TRUE]
     ELSE IF ps.readingNote
     THEN [ps EXCEPT !.npc = << [d EXCEPT !.notes = d.notes \o << "\n" >> \o line] >>]
     ELSE ps

\* the if / else-if chain with a continuation line appended without the
\* line break
FieldLineNoBreak(ps, line) ==
  LET d == ps.npc[1]
      rest == Tail(line)
  IN IF StartsWith(line, "ID:")
     THEN [ps EXCEPT !.npc = << [d EXCEPT !.id = Trim(rest)] >>]
     ELSE IF StartsWith(line, "Name:")
     THEN [ps EXCEPT !.npc = << [d EXCEPT !.name = Trim(rest)] >>]
     ELSE IF StartsWith(line, "Category:")
     THEN [ps EXCEPT !.npc = << [d EXCEPT !.category = Trim(rest)] >>]
     ELSE IF StartsWith(line, "Face:")
     THEN [ps EXCEPT !.npc = << [d EXCEPT !.faceName = FaceName(rest),
                                          !.faceIndex = FaceIndex(rest)] >>]
     ELSE IF StartsWith(line, "Icon:")
     THEN [ps EXCEPT !.npc = << [d EXCEPT !.iconIndexes = IconIndexes(rest)] >>]
     ELSE IF StartsWith(line, "Details:")
     THEN [ps EXCEPT !.npc = << [d EXCEPT !.notes = Trim(rest)] >>,
                     !.readingNote = TRUE]
     ELSE IF ps.readingNote
     THEN [ps EXCEPT !.npc = << [d EXCEPT !.notes = d.notes \o line] >>]
     ELSE ps

\* a field line on an open draft: the if / else-if chain
FieldLine(ps, line) ==
  LET d == ps.npc[1]
      rest == Tail(line)
  IN IF StartsWith(line, "ID:")
     THEN [ps EXCEPT !.npc = << [d EXCEPT !.id = Trim(rest)] >>]
     ELSE IF StartsWith(line, "Name:")
     THEN [ps EXCEPT !.npc = << [d EXCEPT !.name = Trim(rest)] >>]
     ELSE IF StartsWith(line, "Category:")
     THEN [ps EXCEPT !.npc = << [d EXCEPT !.category = Trim(rest)] >>]
     ELSE IF StartsWith(line, "Face:")
     THEN [ps EXCEPT !.npc = << [d EXCEPT !.faceName = FaceName(rest),
                                          !.faceIndex = FaceIndex(rest)] >>]
     ELSE IF StartsWith(line, "Icon:")
     THEN [ps EXCEPT !.npc = << [d EXCEPT !.iconIndexes = IconIndexes(rest)] >>]
     ELSE IF StartsWith(line, "Details:")
     THEN [ps EXCEPT !.npc = << [d EXCEPT !.notes = Trim(rest)] >>,
                     !.readingNote = TRUE]
     ELSE IF ps.readingNote
     THEN [ps EXCEPT !.npc = << [d EXCEPT !.notes = d.notes \o << "\n" >> \o line] >>]
     ELSE ps

\* a "Type:" line whose text includes "NPC"
IsTypeNpc(line) == StartsWith(line, "Type:") /\ Includes(line, "NPC")

\* the body of list.forEach with a Type: NPC line that keeps the fields of
\* the draft before it
ParseStepKeepsFields(ps, cmd, wanted) ==
  IF cmd.code # 108 /\ cmd.code # 408
  THEN [ps EXCEPT !.readingNote = FALSE]
  ELSE LET line == Trim(cmd.text)
       IN IF IsTypeNpc(line)
          THEN ParserState(IF ps.npc = <<>> THEN << NewNpc >> ELSE ps.npc,
                           FALSE, PushCurrent(ps, wanted))
          ELSE IF ps.npc = <<>> THEN ps
          ELSE FieldLine(ps, line)

\* the body of list.forEach with a command that is no comment closing the
\* draft
ParseStepClosesDraft(ps, cmd, wanted) ==
  IF cmd.code # 108 /\ cmd.code # 408
  THEN ParserState(<<>>, FALSE, PushCurrent(ps, wanted))
  ELSE LET line == Trim(cmd.text)
       IN IF IsTypeNpc(line)
          THEN ParserState(<< NewNpc >>, FALSE, PushCurrent(ps, wanted))
          ELSE IF ps.npc = <<>> THEN ps
          ELSE FieldLine(ps, line)

\* the body of list.forEach: one command
ParseStep(ps, cmd, wanted) ==
  IF cmd.code # 108 /\ cmd.code # 408
  THEN [ps EXCEPT !.readingNote = FALSE]
  ELSE LET line == Trim(cmd.text)
       IN IF IsTypeNpc(line)
          THEN ParserState(<< NewNpc >>, FALSE, PushCurrent(ps, wanted))
          ELSE IF ps.npc = <<>> THEN ps
          ELSE FieldLine(ps, line)

\* list.forEach(...) from parser state ps
RECURSIVE ParseAll(_, _, _)
ParseAll(ps, cmds, wanted) ==
  IF cmds = <<>> THEN ps
  ELSE ParseAll(ParseStep(ps, Head(cmds), wanted), Tail(cmds), wanted)

\* parseNpcBlocks(list, wantedId)
ParseNpcBlocks(cmds, wanted) ==
  PushCurrent(ParseAll(ParserStart, cmds, wanted), wanted)

----------------------------------------------------------------------------
(* The personal list and the listener tables *)

\* the registry as a plugin command threads it: _personalList defined or
\* not, its entries, and the callbacks invoked so far
Registry(has, lst, cs) == [has |-> has, lst |-> lst, calls |-> cs]

\* getPersonalList(): defines _personalList as [] when it is undefined
GetPersonalList(st) == [st EXCEPT !.has = TRUE]

\* Array.prototype.filter(i => i.id !== idToDel)
RECURSIVE FilterOut(_, _)
FilterOut(lst, idToDel) ==
  IF lst = <<>> THEN <<>>
  ELSE (IF Head(lst).id # idToDel THEN << Head(lst) >> ELSE <<>>)
         \o FilterOut(Tail(lst), idToDel)

\* L.added.forEach(cb => cb(id)) and L.removed.forEach(cb => cb(id)): the
\* invocations made, in order
Invocations(kind, id, cbs) ==
  [k \in 1..Len(cbs) |-> [kind |-> kind, id |-> id, cb |-> cbs[k]]]

\* _triggerPersonalAdded(id)
TriggerPersonalAdded(id) ==
  IF id \in DOMAIN listeners
  THEN Invocations("added", id, listeners[id].added)
  ELSE <<>>

\* _triggerPersonalRemoved(id)
TriggerPersonalRemoved(id) ==
  IF id \in DOMAIN listeners
  THEN Invocations("removed", id, listeners[id].removed)
  ELSE <<>>

\* removeId that notifies without looking whether anything was removed
RemoveIdAlwaysNotifies(st, idToDel) ==
  LET s1 == GetPersonalList(st)
  IN Registry(TRUE, FilterOut(s1.lst, idToDel),
              s1.calls \o TriggerPersonalRemoved(idToDel))

\* removeId(idToDel)
RemoveId(st, idToDel) ==
  LET s1 == GetPersonalList(st)
      kept == FilterOut(s1.lst, idToDel)
  IN IF Len(kept) # Len(s1.lst)
     THEN Registry(TRUE, kept, s1.calls \o TriggerPersonalRemoved(idToDel))
     ELSE Registry(TRUE, kept, s1.calls)

\* a merge that copies only the fields the source sets
ObjectAssignSetFields(target, source) ==
  [k \in DOMAIN target \cup DOMAIN source |->
     IF k \in DOMAIN source /\ source[k] # NewNpc[k] THEN source[k]
     ELSE target[k]]

\* Object.assign(target, source)
ObjectAssign(target, source) ==
  [k \in DOMAIN target \cup DOMAIN source |->
     IF k \in DOMAIN source THEN source[k] ELSE target[k]]

\* a find that never finds
FindIndexNone(lst, id) == 0

\* list.find(i => i.id === id): the index of the first match, 0 for none
FindIndex(lst, id) ==
  IF \E i \in 1..Len(lst) : lst[i].id = id
  THEN CHOOSE i \in 1..Len(lst) :
         lst[i].id = id /\ \A j \in 1..(i - 1) : lst[j].id # id
  ELSE 0

\* upsert that notifies on an update as on an insert
UpsertAlwaysNotifies(st, rec) ==
  LET s1 == GetPersonalList(st)
      i == FindIndex(s1.lst, rec.id)
  IN IF i # 0
     THEN [s1 EXCEPT !.lst[i] = ObjectAssign(s1.lst[i], rec),
                     !.calls = s1.calls \o TriggerPersonalAdded(rec.id)]
     ELSE Registry(TRUE, Append(s1.lst, rec),
                   s1.calls \o TriggerPersonalAdded(rec.id))

\* upsert(npc); ImageManager.loadFace is fire-and-forget and leaves no state
Upsert(st, rec) ==
  LET s1 == GetPersonalList(st)
      i == FindIndex(s1.lst, rec.id)
  IN IF i # 0
     THEN [s1 EXCEPT !.lst[i] = ObjectAssign(s1.lst[i], rec)]
     ELSE Registry(TRUE, Append(s1.lst, rec),
                   s1.calls \o TriggerPersonalAdded(rec.id))

\* recs.forEach(upsert)
RECURSIVE UpsertAll(_, _)
UpsertAll(st, recs) ==
  IF recs = <<>> THEN st
  ELSE UpsertAll(Upsert(st, Head(recs)), Tail(recs))

\* a removal of several ids that stops at the first id that is not there
RECURSIVE RemoveUntilMiss(_, _)
RemoveUntilMiss(st, ids) ==
  IF ids = <<>> THEN st
  ELSE IF \A i \in 1..Len(st.lst) : st.lst[i].id # Head(ids)
  THEN GetPersonalList(st)
  ELSE RemoveUntilMiss(RemoveId(st, Head(ids)), Tail(ids))

\* ids.forEach(removeId)
RECURSIVE RemoveAll(_, _)
RemoveAll(st, ids) ==
  IF ids = <<>> THEN st
  ELSE RemoveAll(RemoveId(st, Head(ids)), Tail(ids))

\* the ids of parsed records: map(npcObj => npcObj.id)
IdsOf(recs) == [k \in 1..Len(recs) |-> recs[k].id]

\* isPersonalAdded that compares item.id === id, without String(id)
IsPersonalAddedNoString(v) ==
  LET lst == IF hasList THEN personalList ELSE <<>>
  IN \E i \in 1..Len(lst) : JsStr(lst[i].id) = v

\* Game_System.prototype.isPersonalAdded(id): item.id === String(id)
IsPersonalAdded(v) ==
  LET lst == IF hasList THEN personalList ELSE <<>>
  IN \E i \in 1..Len(lst) : JsStr(lst[i].id) = JsStr(String(v))

----------------------------------------------------------------------------
(* The map: events, their pages, the comment lines on them *)

S1 == << "1" >>

S2 == << "2" >>

\* comment commands (108 opens a comment, 408 continues it) and one
\* command that is no comment (101, Show Text)
CType == Cmd(108, << " ", "Type:", " ", "NPC" >>)

CId(s) == Cmd(408, << "ID:", " " >> \o s)

CName(s) == Cmd(408, << "Name:", " " >> \o s)

CCategory(s) == Cmd(408, << "Category:" >> \o s)

CIcon(s) == Cmd(408, << "Icon:" >> \o s)

CDetails(s) == Cmd(408, << "Details:", " " >> \o s \o << " " >>)

CText(s) == Cmd(408, s)

CShowText == Cmd(101, << "t" >>)

\* one block, with four icons of which one is no number
PageFull ==
  << CType, CId(S1), CName(<< "a" >>),
     CIcon(<< " ", "1", ",", "x", ",", "2", ",", "3", ",", "4" >>) >>

\* one NPC split over two comment blocks, as the plugin help describes
PageSplit ==
  << CType, CId(S1), CName(<< "a" >>), CCategory(<< "b" >>),
     CType, CId(S1), CDetails(<< "d" >>) >>

\* two NPCs, one of them in two complete blocks with the same ID
PageTwo ==
  << CType, CId(S2), CName(<< "c" >>),
     CType, CId(S1), CName(<< "a" >>), CCategory(<< "b" >>),
     CType, CId(S1), CName(<< "c" >>) >>

\* a block with an ID and no Name, and a block with a Name and no ID
PageNoName ==
  << CType, CId(S1), CShowText, CType, CName(<< "a" >>) >>

\* $dataMap.events: the pages of every event of the map
MapEvents ==
  << [pages |-> << PageFull, PageSplit >>],
     [pages |-> << PageTwo, PageNoName >>] >>

\* $gameMap.events(): the ids of the map's events, in order
EventIds == 1..Len(MapEvents)

\* this.eventId(): a map event, or 0 (a common event, a battle event)
InterpreterEventIds == {0} \cup EventIds

\* Game_Event._pageIndex: -1 (no page meets its conditions, or the event is
\* erased) or the 0-based index of a page
PageIndexes(e) == (0 - 1)..(Len(MapEvents[e].pages) - 1)

\* ev.event().pages[ev._pageIndex] of event e, as <<>> (undefined) or
\* <<page>>
PageAt(e, idx) ==
  IF idx >= 0 /\ idx < Len(MapEvents[e].pages)
  THEN << MapEvents[e].pages[idx + 1] >>
  ELSE <<>>

\* $gameMap.event(this.eventId()), then its current page: <<>> or <<page>>
CurrentPage(eid, pidx) ==
  IF eid \in EventIds THEN PageAt(eid, pidx[eid]) ELSE <<>>

\* the arguments of a plugin command: the words after its name, split at
\* single blanks (two blanks in a row give the empty word)
ArgSet == { S1, S2, <<>> }

\* the wantedId arguments the commands pass: none, or an argument
WantedSet == { <<>> } \cup { << a >> : a \in ArgSet }

\* parseNpcBlocks(page.list, wantedId) of every page of the map, computed
\* once
ParsedPages ==
  [e \in EventIds |->
     [i \in 1..Len(MapEvents[e].pages) |->
        [w \in WantedSet |-> ParseNpcBlocks(MapEvents[e].pages[i], w)]]]

\* parseNpcBlocks(page.list, wantedId) of the page of event e that PageAt
\* gives for idx
PageRecords(e, idx, wanted) == ParsedPages[e][idx + 1][wanted]

ArgSeqs == UNION { [1..n -> ArgSet] : n \in 0..MaxArgs }

\* the ids handed to the script API: numbers and strings
IdValues == { JsNum(1), JsNum(2), JsStr(S1), JsStr(S2) }

----------------------------------------------------------------------------
(* The plugin commands and the script API *)

\* this._personalListeners[id] with callback cb pushed on L[kind]
Register(tab, id, kind, cb) ==
  LET L == IF id \in DOMAIN tab THEN tab[id]
           ELSE [added |-> <<>>, removed |-> <<>>]
      L2 == IF kind = "added"
            THEN [L EXCEPT !.added = Append(L.added, cb)]
            ELSE [L EXCEPT !.removed = Append(L.removed, cb)]
  IN [k \in DOMAIN tab \cup {id} |-> IF k = id THEN L2 ELSE tab[k]]

\* the callbacks registered so far
RECURSIVE CountCallbacks(_, _)
CountCallbacks(tab, keys) ==
  IF keys = {} THEN 0
  ELSE LET k == CHOOSE x \in keys : TRUE
       IN Len(tab[k].added) + Len(tab[k].removed)
            + CountCallbacks(tab, keys \ {k})

\* Game_System.prototype.onPersonalAdded(id, callback); the callback is a
\* fresh closure, named by its place among the callbacks of its id and kind
OnPersonalAdded ==
  /\ CountCallbacks(listeners, DOMAIN listeners) < MaxRegs
  /\ \E v \in IdValues :
       LET id == String(v)
           n == IF id \in DOMAIN listeners THEN Len(listeners[id].added) ELSE 0
       IN listeners' = Register(listeners, id, "added", n + 1)
  /\ UNCHANGED << hasList, personalList, pageIndex, lastCmd, calls >>
  /\ UNCHANGED parserVars
  /\ UNCHANGED menuVars
  /\ UNCHANGED windowVars
  /\ UNCHANGED dispatchVars

\* Game_System.prototype.onPersonalRemoved(id, callback)
OnPersonalRemoved ==
  /\ CountCallbacks(listeners, DOMAIN listeners) < MaxRegs
  /\ \E v \in IdValues :
       LET id == String(v)
           n == IF id \in DOMAIN listeners THEN Len(listeners[id].removed) ELSE 0
       IN listeners' = Register(listeners, id, "removed", n + 1)
  /\ UNCHANGED << hasList, personalList, pageIndex, lastCmd, calls >>
  /\ UNCHANGED parserVars
  /\ UNCHANGED menuVars
  /\ UNCHANGED windowVars
  /\ UNCHANGED dispatchVars

\* the registry a command starts from
RegistryNow == Registry(hasList, personalList, <<>>)

\* the registry a command leaves, and the record of the command
Commit(after, name, args, eid) ==
  \E st \in { after } :
  /\ hasList' = st.has
  /\ personalList' = st.lst
  /\ calls' = st.calls
  /\ lastCmd' = [name |-> name, args |-> args, ev |-> eid]
  /\ UNCHANGED << listeners, pageIndex >>
  /\ UNCHANGED parserVars
  /\ UNCHANGED menuVars
  /\ UNCHANGED windowVars
  /\ UNCHANGED dispatchVars

\* RemovePersonalFromList with arguments: args.forEach(removeId)
RemoveGiven(st, args) == RemoveAll(st, args)

\* RemovePersonalFromList without arguments, run by event eid
RemoveCurrent(st, eid, pidx) ==
  IF CurrentPage(eid, pidx) = <<>> THEN st
  ELSE RemoveAll(st, IdsOf(PageRecords(eid, pidx[eid], <<>>)))

\* the scan that stops after the first event
AddFromFirstEvent(st, e, targetId, pidx) ==
  IF PageAt(e, pidx[e]) = <<>> THEN st
  ELSE UpsertAll(st, PageRecords(e, pidx[e], << targetId >>))

\* the inner $gameMap.events().forEach of AddPersonalToList <ids>, from
\* event e on, for one targetId
RECURSIVE AddFromEvents(_, _, _, _)
AddFromEvents(st, e, targetId, pidx) ==
  IF e > Len(MapEvents) THEN st
  ELSE LET s1 == IF PageAt(e, pidx[e]) = <<>> THEN st
                 ELSE UpsertAll(st, PageRecords(e, pidx[e], << targetId >>))
       IN AddFromEvents(s1, e + 1, targetId, pidx)

\* AddPersonalToList with arguments: args.forEach(targetId => ...)
RECURSIVE AddGiven(_, _, _)
AddGiven(st, args, pidx) ==
  IF args = <<>> THEN st
  ELSE AddGiven(AddFromEvents(st, 1, Head(args), pidx), Tail(args), pidx)

\* AddPersonalToList without arguments, run by event eid
AddCurrent(st, eid, pidx) ==
  IF CurrentPage(eid, pidx) = <<>> THEN st
  ELSE UpsertAll(st, PageRecords(eid, pidx[eid], <<>>))

\* pluginCommand("RemovePersonalFromList", args) run by event eid
RemoveCommand(args, eid) ==
  Commit(IF args # <<>> THEN RemoveGiven(RegistryNow, args)
         ELSE RemoveCurrent(RegistryNow, eid, pageIndex),
         "RemovePersonalFromList", args, eid)

\* pluginCommand("AddPersonalToList", args) run by event eid
AddCommand(args, eid) ==
  Commit(IF args # <<>> THEN AddGiven(RegistryNow, args, pageIndex)
         ELSE AddCurrent(RegistryNow, eid, pageIndex),
         "AddPersonalToList", args, eid)

\* this.eventId() is read only when there are no arguments
RemovePersonalFromList ==
  \E args \in ArgSeqs :
    \E eid \in (IF args = <<>> THEN InterpreterEventIds ELSE {0}) :
      RemoveCommand(args, eid)

AddPersonalToList ==
  \E args \in ArgSeqs :
    \E eid \in (IF args = <<>> THEN InterpreterEventIds ELSE {0}) :
      AddCommand(args, eid)

\* the engine switches the page of a map event (Game_Event.refresh), which
\* is what _pageIndex is read for
RefreshEvent ==
  /\ \E e \in EventIds : \E p \in PageIndexes(e) :
       /\ pageIndex[e] # p
       /\ pageIndex' = [pageIndex EXCEPT ![e] = p]
  /\ UNCHANGED << hasList, personalList, listeners, lastCmd, calls >>
  /\ UNCHANGED parserVars
  /\ UNCHANGED menuVars
  /\ UNCHANGED windowVars
  /\ UNCHANGED dispatchVars

----------------------------------------------------------------------------
(* Window_PersonalDesc: the wrapped and paged description.  Lengths are in  *)
(* units of one narrow character; a "w" token is a character twice as wide *)

\* longest description text, in characters
MaxText == 5

\* Bitmap.measureTextWidth of one character
CharWidth(c) == IF c = "w" THEN 2 ELSE 1

\* this.textWidth(s)
RECURSIVE TextWidth(_)
TextWidth(s) == IF s = <<>> THEN 0 ELSE CharWidth(Head(s)) + TextWidth(Tail(s))

\* String.prototype.split(" ")
RECURSIVE SplitBlank(_)
SplitBlank(s) ==
  IF \A i \in 1..Len(s) : s[i] # " "
  THEN << s >>
  ELSE LET k == CHOOSE i \in 1..Len(s) :
                  s[i] = " " /\ \A j \in 1..(i - 1) : s[j] # " "
       IN << SubSeq(s, 1, k - 1) >> \o SplitBlank(SubSeq(s, k + 1, Len(s)))

\* setText before its loop: lines = [""], cur = ""
WrapStart == [lines |-> << <<>> >>, cur |-> <<>>]

\* a round that opens a new line as soon as the line is filled exactly
WrapStepTight(ws, w, maxW) ==
  LET test == ws.cur \o w \o << " " >>
  IN IF TextWidth(test) >= maxW /\ ws.cur # <<>>
     THEN [lines |-> Append(ws.lines, w \o << " " >>), cur |-> w \o << " " >>]
     ELSE [lines |-> [ws.lines EXCEPT ![Len(ws.lines)] = test], cur |-> test]

\* one round of "for (const w of words)"
WrapStep(ws, w, maxW) ==
  LET test == ws.cur \o w \o << " " >>
  IN IF TextWidth(test) > maxW /\ ws.cur # <<>>
     THEN [lines |-> Append(ws.lines, w \o << " " >>), cur |-> w \o << " " >>]
     ELSE [lines |-> [ws.lines EXCEPT ![Len(ws.lines)] = test], cur |-> test]

\* the loop over the words
RECURSIVE WrapAll(_, _, _)
WrapAll(ws, words, maxW) ==
  IF words = <<>> THEN ws
  ELSE WrapAll(WrapStep(ws, Head(words), maxW), Tail(words), maxW)

\* the lines of setText(text)
WrapText(text, maxW) == WrapAll(WrapStart, SplitBlank(text), maxW).lines

\* pages that leave no line to the page indicator
LinesPerPageNoFooter(g) ==
  LET n == g.height \div g.lh IN IF n > 1 THEN n ELSE 1

\* Math.max(1, Math.floor(this.contentsHeight() / lh) - 1)
LinesPerPage(g) ==
  LET n == (g.height \div g.lh) - 1 IN IF n > 1 THEN n ELSE 1

\* lines.slice(i, i + k), i counted from 0
Slice(lines, i, k) ==
  SubSeq(lines, i + 1, IF i + k < Len(lines) THEN i + k ELSE Len(lines))

\* for (let i = 0; i < totalLines; i += linesPerPage) this._pages.push(...)
RECURSIVE PagesFrom(_, _, _)
PagesFrom(lines, i, k) ==
  IF i >= Len(lines) THEN <<>>
  ELSE << Slice(lines, i, k) >> \o PagesFrom(lines, i + k, k)

\* the lines of page that refresh draws from line i (counted from 0) on: it
\* stops at the first line that does not fit above the indicator's line
RECURSIVE DrawFrom(_, _, _)
DrawFrom(page, i, g) ==
  IF i >= Len(page) THEN <<>>
  ELSE IF i * g.lh + g.lh > g.height - g.lh THEN <<>>
  ELSE << page[i + 1] >> \o DrawFrom(page, i + 1, g)

\* this._pages[this._pageIdx] || []
PageShown(ps, idx) == IF idx + 1 \in 1..Len(ps) THEN ps[idx + 1] ELSE <<>>

\* refresh, on the pages and page index it finds
Refresh(ps, idx) ==
  /\ drawn' = DrawFrom(PageShown(ps, idx), 0, geom)
  /\ indicator' = (Len(ps) > 1)

\* the record of an operation on the description window
DescOp(op, text, lines, prev, next) ==
  [op |-> op, text |-> text, lines |-> lines, prev |-> prev, next |-> next,
   from |-> pageIdx]

\* Window_PersonalDesc.prototype.setText(text)
SetText(text) ==
  \E lines \in { WrapText(text, geom.maxW) } :
    /\ pages' = PagesFrom(lines, 0, LinesPerPage(geom))
    /\ pageIdx' = 0
    /\ Refresh(pages', 0)
    /\ lastDesc' = DescOp("setText", text, lines, FALSE, FALSE)

\* Window_PersonalDesc.prototype.clear
Clear ==
  /\ pages' = <<>>
  /\ pageIdx' = 0
  /\ drawn' = <<>>
  /\ indicator' = FALSE
  /\ lastDesc' = DescOp("clear", <<>>, <<>>, FALSE, FALSE)

\* the page index after the "pageup" / "left" half of update
AfterPrev(idx, prev) == IF prev /\ idx > 0 THEN idx - 1 ELSE idx

\* a next-page input that does not look at the number of pages
AfterNextUnbounded(idx, next, count) == IF next THEN idx + 1 ELSE idx

\* the page index after the "pagedown" / "right" half of update
AfterNext(idx, next, count) == IF next /\ idx < count - 1 THEN idx + 1 ELSE idx

\* Window_PersonalDesc.prototype.update in a frame where the previous-page
\* and next-page inputs are triggered or not
Update(prev, next) ==
  /\ IF ~descActive \/ Len(pages) < 2
     THEN UNCHANGED << pageIdx, drawn, indicator >>
     ELSE \E idx \in { AfterNext(AfterPrev(pageIdx, prev), next, Len(pages)) } :
            /\ pageIdx' = idx
            /\ IF idx # pageIdx \/ (prev /\ pageIdx > 0)
               THEN Refresh(pages, idx)
               ELSE UNCHANGED << drawn, indicator >>
  /\ lastDesc' = DescOp("update", <<>>, <<>>, prev, next)
  /\ UNCHANGED << pages, descActive >>

\* the contents of the description window: width left for the text, height
\* and line height
DefaultGeom == [maxW |-> 4, height |-> 3, lh |-> 1]

NoDescOp ==
  [op |-> "none", text |-> <<>>, lines |-> <<>>, prev |-> FALSE,
   next |-> FALSE, from |-> 0]

\* new Window_PersonalDesc
DescCreated ==
  /\ pages = <<>>
  /\ pageIdx = 0
  /\ descActive = FALSE
  /\ drawn = <<>>
  /\ indicator = FALSE
  /\ lastDesc = NoDescOp

\* no Scene_PersonalList yet
WindowStart ==
  /\ geom = DefaultGeom
  /\ DescCreated
  /\ listData = <<>>
  /\ listIndex = 0
  /\ listActive = FALSE
  /\ detailsActive = FALSE
  /\ header = <<>>
  /\ error = FALSE

\* Scene_PersonalList.prototype.create: the list window reads the list
\* through getPersonalList (which makes $gameSystem._personalList an array),
\* selects its first row and is activated
CreateScene ==
  /\ hasList' = TRUE
  /\ listData' = personalList
  /\ listIndex' = 0
  /\ listActive' = TRUE
  /\ detailsActive' = FALSE
  /\ header' = <<>>
  /\ pages' = <<>>
  /\ pageIdx' = 0
  /\ descActive' = FALSE
  /\ drawn' = <<>>
  /\ indicator' = FALSE
  /\ lastDesc' = NoDescOp
  /\ UNCHANGED << geom, error >>
  /\ UNCHANGED << personalList, listeners, pageIndex, lastCmd, calls >>

\* the windows of a Scene_PersonalList that is left are gone
WindowsGone ==
  /\ listData' = <<>>
  /\ listIndex' = 0
  /\ listActive' = FALSE
  /\ detailsActive' = FALSE
  /\ header' = <<>>
  /\ pages' = <<>>
  /\ pageIdx' = 0
  /\ descActive' = FALSE
  /\ drawn' = <<>>
  /\ indicator' = FALSE
  /\ lastDesc' = NoDescOp
  /\ UNCHANGED << geom, error >>

\* no plugin command is running, and every callback only returns
DispatchStart ==
  /\ stack = <<>>
  /\ behaviour = <<>>
  /\ seen = <<>>

ParserIdle ==
  /\ list = <<>>
  /\ wantedId = <<>>
  /\ npc = <<>>
  /\ readingNote = FALSE
  /\ results = <<>>
  /\ pc = "idle"

NoListeners == [k \in {} |-> 0]

NoCommand == [name |-> "none", args |-> <<>>, ev |-> 0]

\* the game has started with the plugin parameters at their defaults:
\* Scene_Boot.start has set _personalMenuEnabled
MenuStart ==
  /\ enableInitial = TRUE
  /\ menuEnabled = << enableInitial >>
  /\ toggled = "none"
  /\ scene = <<>>
  /\ hasCommand = FALSE

\* the game has started: no list yet, no listener, every event on its first
\* page
RegistryStart ==
  /\ hasList = FALSE
  /\ personalList = <<>>
  /\ listeners = NoListeners
  /\ pageIndex \in [EventIds -> {0}]
  /\ lastCmd = NoCommand
  /\ calls = <<>>
  /\ MenuStart
  /\ WindowStart
  /\ DispatchStart

Init == RegistryStart /\ ParserIdle

\* the script API and the plugin commands, while no event changes its page
Next ==
  \/ OnPersonalAdded
  \/ OnPersonalRemoved
  \/ RemovePersonalFromList
  \/ AddPersonalToList

Spec == Init /\ [][Next]_vars

\* the plugin commands while the events change their pages, with no
\* listener registered
NextMap ==
  \/ RemovePersonalFromList
  \/ AddPersonalToList
  \/ RefreshEvent

SpecMap == Init /\ [][NextMap]_vars

----------------------------------------------------------------------------
(* The Personals menu: its two entry points and the commands that toggle it *)

\* Scene_Map.update: the open-menu key opens the scene when
\* $gameSystem._personalMenuEnabled is truthy
KeyOpens == menuEnabled = << TRUE >>

\* addOriginalCommands: _personalMenuEnabled after its lazy initialisation
MenuEnabledInMenu ==
  IF menuEnabled = <<>> THEN << enableInitial >> ELSE menuEnabled

\* pluginCommand("EnablePersonalMenu") / ("DisablePersonalMenu"), run by the
\* map's interpreter
SetPersonalMenu(name, on, mark) ==
  /\ scene = <<>>
  /\ menuEnabled' = << on >>
  /\ toggled' = mark
  /\ lastCmd' = [name |-> name, args |-> <<>>, ev |-> 0]
  /\ calls' = <<>>
  /\ UNCHANGED << hasList, personalList, listeners, pageIndex >>
  /\ UNCHANGED << enableInitial, scene, hasCommand >>
  /\ UNCHANGED parserVars
  /\ UNCHANGED windowVars
  /\ UNCHANGED dispatchVars

EnablePersonalMenu == SetPersonalMenu("EnablePersonalMenu", TRUE, "enable")

DisablePersonalMenu == SetPersonalMenu("DisablePersonalMenu", FALSE, "disable")

\* the main menu opens on the map: Window_MenuCommand.addOriginalCommands
OpenMainMenu ==
  /\ scene = <<>>
  /\ menuEnabled' = MenuEnabledInMenu
  /\ hasCommand' = MenuEnabledInMenu[1]
  /\ scene' = << "menu" >>
  /\ UNCHANGED registryVars
  /\ UNCHANGED << enableInitial, toggled >>
  /\ UNCHANGED parserVars
  /\ UNCHANGED windowVars
  /\ UNCHANGED dispatchVars

\* Scene_Menu.commandPersonalList: the Personals command is chosen
CommandPersonalList ==
  /\ scene = << "menu" >>
  /\ hasCommand
  /\ scene' = << "menu", "personal" >>
  /\ CreateScene
  /\ UNCHANGED << enableInitial, menuEnabled, toggled, hasCommand >>
  /\ UNCHANGED parserVars
  /\ UNCHANGED dispatchVars

\* Scene_Map.update with the open-menu key triggered
PressKey ==
  /\ scene = <<>>
  /\ KeyOpens
  /\ scene' = << "personal" >>
  /\ CreateScene
  /\ UNCHANGED << enableInitial, menuEnabled, toggled, hasCommand >>
  /\ UNCHANGED parserVars
  /\ UNCHANGED dispatchVars

\* popScene: back to the scene below; the main menu builds its command
\* window again, the map has none.  Scene_PersonalList is left by the
\* cancel handler of its list window, which answers while it is active
PopScene ==
  /\ scene # <<>>
  /\ scene[Len(scene)] = "personal" => listActive
  /\ scene' = SubSeq(scene, 1, Len(scene) - 1)
  /\ hasCommand' = (Len(scene) = 2 /\ MenuEnabledInMenu[1])
  /\ UNCHANGED registryVars
  /\ UNCHANGED << enableInitial, menuEnabled, toggled >>
  /\ UNCHANGED parserVars
  /\ WindowsGone
  /\ UNCHANGED dispatchVars

\* a new game is started from the title: $gameSystem is a new Game_System,
\* with no _personalList and no _personalMenuEnabled of its own; the
\* _personalListeners object is the one of the prototype
NewGame ==
  /\ hasList' = FALSE
  /\ personalList' = <<>>
  /\ pageIndex' = [e \in EventIds |-> 0]
  /\ lastCmd' = NoCommand
  /\ calls' = <<>>
  /\ menuEnabled' = <<>>
  /\ toggled' = "none"
  /\ scene' = <<>>
  /\ hasCommand' = FALSE
  /\ UNCHANGED << listeners, enableInitial >>
  /\ UNCHANGED parserVars
  /\ WindowsGone
  /\ UNCHANGED dispatchVars

\* the game has started with either value of the parameter: Scene_Boot.start
\* has set _personalMenuEnabled of the $gameSystem of the boot
InitMenu ==
  /\ hasList = FALSE
  /\ personalList = <<>>
  /\ listeners = NoListeners
  /\ pageIndex \in [EventIds -> {0}]
  /\ lastCmd = NoCommand
  /\ calls = <<>>
  /\ enableInitial \in BOOLEAN
  /\ menuEnabled = << enableInitial >>
  /\ toggled = "none"
  /\ scene = <<>>
  /\ hasCommand = FALSE
  /\ WindowStart
  /\ DispatchStart
  /\ ParserIdle

\* a plugin command that fills the list, run by the map's interpreter
AddOnMap == scene = <<>> /\ AddPersonalToList

NextMenu ==
  \/ EnablePersonalMenu
  \/ DisablePersonalMenu
  \/ OpenMainMenu
  \/ CommandPersonalList
  \/ PressKey
  \/ PopScene
  \/ NewGame
  \/ AddOnMap

SpecMenu == InitMenu /\ [][NextMenu]_vars

\* the script API and the plugin commands over several games
NextSession == Next \/ NewGame

SpecSession == Init /\ [][NextSession]_vars

----------------------------------------------------------------------------
(* parseNpcBlocks run command by command on a page that is drawn line by    *)
(* line, and the upsert of what it returns                                  *)

\* the comment lines a page is drawn from
ParseCmdSet ==
  { CType, CId(S1), CId(S2), CName(<< "a" >>), Cmd(408, << "Name:", " " >>),
    CIcon(<< "1", ",", "2", ",", "3", ",", "4" >>), CDetails(<< "d" >>),
    CText(<< " ", "t", " " >>), CShowText }

\* the wantedId arguments a page is parsed with
ParseWantedSet == { <<>>, << S1 >> }

\* the parser's local state, from the variables
ParserNow == ParserState(npc, readingNote, results)

\* one round of list.forEach on command cmd
Consume(cmd) ==
  /\ pc = "scan"
  /\ \E ps \in { ParseStep(ParserNow, cmd, wantedId) } :
       /\ npc' = ps.npc
       /\ readingNote' = ps.readingNote
       /\ results' = ps.results
  /\ list' = Append(list, cmd)
  /\ UNCHANGED << wantedId, pc >>
  /\ UNCHANGED registryVars
  /\ UNCHANGED menuVars
  /\ UNCHANGED windowVars
  /\ UNCHANGED dispatchVars

\* the next command of the page
ParseLine ==
  /\ Len(list) < MaxLines
  /\ \E cmd \in ParseCmdSet : Consume(cmd)

\* the end of the list: the last pushCurrent, and the return
ParseEnd ==
  /\ pc = "scan"
  /\ results' = PushCurrent(ParserNow, wantedId)
  /\ pc' = "done"
  /\ UNCHANGED << list, wantedId, npc, readingNote >>
  /\ UNCHANGED registryVars
  /\ UNCHANGED menuVars
  /\ UNCHANGED windowVars
  /\ UNCHANGED dispatchVars

\* parseNpcBlocks(page.list).forEach(upsert) of AddPersonalToList, on the
\* records returned
UpsertResults ==
  /\ pc = "done"
  /\ \E st \in { UpsertAll(RegistryNow, results) } :
       /\ hasList' = st.has
       /\ personalList' = st.lst
       /\ calls' = st.calls
  /\ lastCmd' = [name |-> "AddPersonalToList", args |-> <<>>, ev |-> 0]
  /\ pc' = "stored"
  /\ UNCHANGED << listeners, pageIndex >>
  /\ UNCHANGED << list, wantedId, npc, readingNote, results >>
  /\ UNCHANGED menuVars
  /\ UNCHANGED windowVars
  /\ UNCHANGED dispatchVars

InitParse ==
  /\ RegistryStart
  /\ list = <<>>
  /\ wantedId \in ParseWantedSet
  /\ npc = <<>>
  /\ readingNote = FALSE
  /\ results = <<>>
  /\ pc = "scan"

NextParse == ParseLine \/ ParseEnd

SpecParse == InitParse /\ [][NextParse]_vars

----------------------------------------------------------------------------
(* One Icon: line of any content on a draft that has an ID and a Name *)

\* most comma-separated entries of the Icon: line
MaxIcons == 4

\* the entries an Icon: value is joined from
IconEntrySet ==
  { << "1" >>, << "2" >>, << " ", "3", " " >>, << "1", "2" >>, << "-", "4" >>,
    << "5", "x" >>, << "x" >>, <<>> }

\* Array.prototype.join(",")
RECURSIVE JoinComma(_)
JoinComma(parts) ==
  IF parts = <<>> THEN <<>>
  ELSE IF Len(parts) = 1 THEN parts[1]
  ELSE parts[1] \o << "," >> \o JoinComma(Tail(parts))

\* the Icon: values: up to MaxIcons entries, and the five icons of the
\* documentation
IconTexts ==
  { JoinComma(es) : es \in UNION { [1..n -> IconEntrySet] : n \in 1..MaxIcons } }
    \cup { << "1", ",", "2", ",", "3", ",", "4", ",", "5" >> }

\* the block the Icon: line is read in
IconPrefix == << CType, CId(S1), CName(<< "a" >>) >>

InitIcon ==
  /\ RegistryStart
  /\ list = IconPrefix
  /\ wantedId = <<>>
  /\ \E ps \in { ParseAll(ParserStart, IconPrefix, <<>>) } :
       /\ npc = ps.npc
       /\ readingNote = ps.readingNote
       /\ results = ps.results
  /\ pc = "scan"

\* the Icon: line of the block
ParseIconLine ==
  /\ Len(list) = Len(IconPrefix)
  /\ \E v \in IconTexts : Consume(CIcon(v))

NextIcon == ParseIconLine \/ ParseEnd \/ UpsertResults

SpecIcon == InitIcon /\ [][NextIcon]_vars

----------------------------------------------------------------------------
(* One Face: line of any content on a draft that has an ID and a Name *)

CFace(s) == Cmd(408, << "Face:" >> \o s)

\* the face sheet names of a Face: value (Actor1, with and without blanks,
\* and none)
FaceNameSet ==
  { << "A", "c", "t", "o", "r", "1" >>,
    << " ", "A", "c", "t", "o", "r", "1", " " >>, <<>> }

\* what follows the face sheet name: nothing, or a comma and an index text
FaceIndexSet ==
  { << "3" >>, << " ", "3" >>, << "3", " " >>, << "0" >>, << "1", "2" >>,
    << "-", "1" >>, << "3", "x" >>, << "x" >>, << "x", "3" >>, << " " >>,
    <<>>, << "3", ",", "4" >> }

\* the Face: values
FaceTexts ==
  FaceNameSet \cup { n \o << "," >> \o i : n \in FaceNameSet, i \in FaceIndexSet }

\* the Face: line of the block
ParseFaceLine ==
  /\ Len(list) = Len(IconPrefix)
  /\ \E v \in FaceTexts : Consume(CFace(v))

NextFace == ParseFaceLine \/ ParseEnd \/ UpsertResults

SpecFace == InitIcon /\ [][NextFace]_vars

----------------------------------------------------------------------------
(* One block whose field lines come in any order *)

\* the field lines of the block of the plugin help, one of each kind
OrderLines ==
  << CId(S1), CName(<< "a" >>), CCategory(<< " ", "b" >>),
     CFace(<< " ", "A", "c", "t", "o", "r", "1", ",", " ", "3" >>),
     CIcon(<< " ", "1", ",", "2", ",", "3" >>), CDetails(<< "d" >>) >>

InitOrder ==
  /\ RegistryStart
  /\ list = << CType >>
  /\ wantedId = <<>>
  /\ \E ps \in { ParseAll(ParserStart, << CType >>, <<>>) } :
       /\ npc = ps.npc
       /\ readingNote = ps.readingNote
       /\ results = ps.results
  /\ pc = "scan"

\* the next line of the block: any field line not yet written
ParseFieldLine ==
  \E k \in 1..Len(OrderLines) :
    /\ \A i \in 1..Len(list) : list[i] # OrderLines[k]
    /\ Consume(OrderLines[k])

NextOrder == ParseFieldLine \/ ParseEnd

SpecOrder == InitOrder /\ [][NextOrder]_vars

----------------------------------------------------------------------------
(* Scene_PersonalList: the list window, details mode and the description   *)

\* Scene_PersonalList is the scene on top
InPersonalScene == scene # <<>> /\ scene[Len(scene)] = "personal"

\* Window_PersonalList.prototype.item: this._data[this.index()], which is
\* undefined (<<>>) past the end of the list
Item ==
  IF listIndex >= 0 /\ listIndex + 1 <= Len(listData)
  THEN << listData[listIndex + 1] >>
  ELSE <<>>

\* what setData keeps of the record
HeaderOf(data) ==
  [faceName |-> data.faceName, faceIndex |-> data.faceIndex,
   name |-> data.name, category |-> data.category,
   iconIndexes |-> data.iconIndexes]

\* the ok handler of the list window: Window_Selectable.processOk
\* deactivates the window and calls Scene_PersonalList.prototype.onItemOk,
\* which throws a TypeError when it reads data.faceName of no record
OnItemOk ==
  /\ InPersonalScene
  /\ listActive
  /\ listActive' = FALSE
  /\ IF Item = <<>>
     THEN /\ error' = TRUE
          /\ UNCHANGED << header, detailsActive >>
          /\ UNCHANGED descVars
     ELSE /\ header' = << HeaderOf(Item[1]) >>
          /\ SetText(Item[1].notes)
          /\ detailsActive' = TRUE
          /\ descActive' = TRUE
          /\ UNCHANGED error
  /\ UNCHANGED << geom, listData, listIndex >>
  /\ UNCHANGED registryVars
  /\ UNCHANGED parserVars
  /\ UNCHANGED menuVars
  /\ UNCHANGED dispatchVars

\* the cursor of the active list window moves to another row
MoveCursor ==
  /\ InPersonalScene
  /\ listActive
  /\ \E i \in 0..(Len(listData) - 1) :
       /\ i # listIndex
       /\ listIndex' = i
  /\ UNCHANGED << geom, listData, listActive, detailsActive, header, error >>
  /\ UNCHANGED descVars
  /\ UNCHANGED registryVars
  /\ UNCHANGED parserVars
  /\ UNCHANGED menuVars
  /\ UNCHANGED dispatchVars

\* Scene_PersonalList.prototype.update with cancel triggered in details mode
CancelDetails ==
  /\ InPersonalScene
  /\ detailsActive
  /\ detailsActive' = FALSE
  /\ header' = <<>>
  /\ Clear
  /\ listActive' = TRUE
  /\ UNCHANGED << geom, listData, listIndex, descActive, error >>
  /\ UNCHANGED registryVars
  /\ UNCHANGED parserVars
  /\ UNCHANGED menuVars
  /\ UNCHANGED dispatchVars

\* a frame of the scene in which the description window reads the
\* previous-page and next-page inputs
UpdateDesc ==
  /\ InPersonalScene
  /\ ~error
  /\ \E prev, next \in BOOLEAN :
       /\ prev \/ next
       /\ Update(prev, next)
  /\ UNCHANGED << geom, listData, listIndex, listActive, detailsActive,
                  header, error >>
  /\ UNCHANGED registryVars
  /\ UNCHANGED parserVars
  /\ UNCHANGED menuVars
  /\ UNCHANGED dispatchVars

\* the characters of a description
DescChars == { "a", "w", " " }

\* the texts written after Details:
DescTexts == UNION { [1..n -> DescChars] : n \in 0..MaxText }

\* the contents sizes of the description window
GeomSet == [maxW : 2..4, height : 0..5, lh : 1..2]

\* the page the record of the scene is added from
DescPage(text) == << CType, CId(S1), CName(<< "a" >>), CDetails(text) >>

\* Scene_PersonalList has been opened from the map on a list of one record,
\* added from a page with any description, in a window of any size
InitDesc ==
  /\ hasList = TRUE
  /\ \E text \in DescTexts : personalList = ParseNpcBlocks(DescPage(text), <<>>)
  /\ listeners = NoListeners
  /\ pageIndex \in [EventIds -> {0}]
  /\ lastCmd = [name |-> "AddPersonalToList", args |-> <<>>, ev |-> 0]
  /\ calls = <<>>
  /\ enableInitial = TRUE
  /\ menuEnabled = << TRUE >>
  /\ toggled = "none"
  /\ scene = << "personal" >>
  /\ hasCommand = FALSE
  /\ geom \in GeomSet
  /\ DescCreated
  /\ listData = personalList
  /\ listIndex = 0
  /\ listActive = TRUE
  /\ detailsActive = FALSE
  /\ header = <<>>
  /\ error = FALSE
  /\ DispatchStart
  /\ ParserIdle

NextDesc == OnItemOk \/ CancelDetails \/ UpdateDesc

SpecDesc == InitDesc /\ [][NextDesc]_vars

\* the game from its start: records are added on the map, the scene is
\* opened by the key or from the main menu, rows are chosen and left
NextScene ==
  \/ AddOnMap
  \/ OpenMainMenu
  \/ CommandPersonalList
  \/ PressKey
  \/ PopScene
  \/ MoveCursor
  \/ OnItemOk
  \/ CancelDetails
  \/ UpdateDesc

SpecScene == Init /\ [][NextScene]_vars

----------------------------------------------------------------------------
(* The plugin commands step by step, with callbacks that issue plugin       *)
(* commands themselves.  stack holds what is running, innermost last: the  *)
(* records a command still has to upsert, the ids it still has to remove,  *)
(* the callbacks a dispatch still has to invoke                            *)

\* most callback invocations of one plugin command of the interpreter
MaxCalls == 4

\* what a callback does with the id it is invoked with: it returns, or it
\* runs AddPersonalToList id or RemovePersonalFromList id first
BehaviourSet == { "none", "add", "remove" }

Frame(t, recs, ids, kind, id, cbs, touched) ==
  [t |-> t, recs |-> recs, ids |-> ids, kind |-> kind, id |-> id,
   cbs |-> cbs, touched |-> touched]

\* parseNpcBlocks(page.list).forEach(upsert), still to do
AddFrame(recs) == Frame("add", recs, <<>>, "none", <<>>, <<>>, FALSE)

\* forEach(removeId), still to do
RemoveFrame(ids) == Frame("remove", <<>>, ids, "none", <<>>, <<>>, FALSE)

\* L.added.forEach(cb => cb(id)) or L.removed.forEach(cb => cb(id)), still
\* to do; the callbacks are named by their place
FireFrame(kind, id) ==
  Frame("fire", <<>>, <<>>, kind, id,
        IF id \notin DOMAIN listeners THEN <<>>
        ELSE IF kind = "added" THEN listeners[id].added
        ELSE listeners[id].removed,
        FALSE)

\* a frame with nothing left to do has returned
Returned(f) == f.recs = <<>> /\ f.ids = <<>> /\ f.cbs = <<>>

Running(f) == IF Returned(f) THEN <<>> ELSE << f >>

\* the records AddPersonalToList <ids> upserts, in order: for each id, for
\* each event, the records of its current page with that id
RECURSIVE GivenFromEvents(_, _, _)
GivenFromEvents(e, targetId, pidx) ==
  IF e > Len(MapEvents) THEN <<>>
  ELSE (IF PageAt(e, pidx[e]) = <<>> THEN <<>>
        ELSE PageRecords(e, pidx[e], << targetId >>))
         \o GivenFromEvents(e + 1, targetId, pidx)

RECURSIVE GivenRecords(_, _)
GivenRecords(args, pidx) ==
  IF args = <<>> THEN <<>>
  ELSE GivenFromEvents(1, Head(args), pidx) \o GivenRecords(Tail(args), pidx)

\* the records of the current page of event eid
CurrentRecords(eid, pidx) ==
  IF CurrentPage(eid, pidx) = <<>> THEN <<>>
  ELSE PageRecords(eid, pidx[eid], <<>>)

\* pluginCommand("AddPersonalToList", args) run by event eid: what it has
\* to do
AddWork(args, eid, pidx) ==
  AddFrame(IF args # <<>> THEN GivenRecords(args, pidx)
           ELSE CurrentRecords(eid, pidx))

\* pluginCommand("RemovePersonalFromList", args) run by event eid: what it
\* has to do
RemoveWork(args, eid, pidx) ==
  RemoveFrame(IF args # <<>> THEN args ELSE IdsOf(CurrentRecords(eid, pidx)))

\* the behaviour of the callback at place cb of the callbacks of id and kind
BehaviourOf(kind, id, cb) ==
  IF << kind, id, cb >> \in DOMAIN behaviour
  THEN behaviour[<< kind, id, cb >>]
  ELSE "none"

\* onPersonalAdded / onPersonalRemoved with a callback of behaviour b
RegisterDoing(kind, b) ==
  /\ stack = <<>>
  /\ CountCallbacks(listeners, DOMAIN listeners) < MaxRegs
  /\ \E v \in IdValues :
       LET id == String(v)
           n == IF id \notin DOMAIN listeners THEN 0
                ELSE IF kind = "added" THEN Len(listeners[id].added)
                ELSE Len(listeners[id].removed)
       IN /\ listeners' = Register(listeners, id, kind, n + 1)
          /\ behaviour' =
               [k \in DOMAIN behaviour \cup { << kind, id, n + 1 >> } |->
                  IF k = << kind, id, n + 1 >> THEN b ELSE behaviour[k]]
  /\ UNCHANGED << hasList, personalList, pageIndex, lastCmd, calls >>
  /\ UNCHANGED << stack, seen >>
  /\ UNCHANGED parserVars
  /\ UNCHANGED menuVars
  /\ UNCHANGED windowVars

OnPersonalAddedDoing == \E b \in BehaviourSet : RegisterDoing("added", b)

OnPersonalRemovedDoing == \E b \in BehaviourSet : RegisterDoing("removed", b)

\* the interpreter of the map starts a plugin command
StartCommand(name, work, args, eid) ==
  /\ stack = <<>>
  /\ stack' = Running(work)
  /\ lastCmd' = [name |-> name, args |-> args, ev |-> eid]
  /\ calls' = <<>>
  /\ seen' = <<>>
  /\ UNCHANGED << hasList, personalList, listeners, pageIndex, behaviour >>
  /\ UNCHANGED parserVars
  /\ UNCHANGED menuVars
  /\ UNCHANGED windowVars

\* the arguments of the commands the interpreter runs here: none, or one
ShortArgSeqs == { <<>> } \cup { << a >> : a \in ArgSet }

StartAdd ==
  \E args \in ShortArgSeqs :
    \E eid \in (IF args = <<>> THEN InterpreterEventIds ELSE {0}) :
      StartCommand("AddPersonalToList", AddWork(args, eid, pageIndex),
                   args, eid)

StartRemove ==
  \E args \in ShortArgSeqs :
    \E eid \in (IF args = <<>> THEN InterpreterEventIds ELSE {0}) :
      StartCommand("RemovePersonalFromList", RemoveWork(args, eid, pageIndex),
                   args, eid)

\* the frame that is running, the frames below it, and the frame that is
\* running with its first item taken
Top == stack[Len(stack)]

Below == SubSeq(stack, 1, Len(stack) - 1)

\* upsert(npc) up to its callbacks: the list it leaves and the dispatch it
\* starts
UpsertStep(lst, rec) ==
  LET i == FindIndex(lst, rec.id)
  IN IF i # 0
     THEN [lst |-> [lst EXCEPT ![i] = ObjectAssign(lst[i], rec)],
           fire |-> <<>>]
     ELSE [lst |-> Append(lst, rec),
           fire |-> Running(FireFrame("added", rec.id))]

\* a removeId that notifies and leaves the entry in the list
RemoveStepKeeps(lst, idToDel) ==
  LET kept == FilterOut(lst, idToDel)
  IN [lst |-> lst,
      fire |-> IF Len(kept) # Len(lst)
               THEN Running(FireFrame("removed", idToDel)) ELSE <<>>]

\* removeId(idToDel) up to its callbacks: the list it leaves and the
\* dispatch it starts
RemoveStep(lst, idToDel) ==
  LET kept == FilterOut(lst, idToDel)
  IN [lst |-> kept,
      fire |-> IF Len(kept) # Len(lst)
               THEN Running(FireFrame("removed", idToDel)) ELSE <<>>]

\* the running command upserts its next record
UpsertNext ==
  /\ stack # <<>>
  /\ Top.t = "add"
  /\ \E r \in { UpsertStep(personalList, Head(Top.recs)) } :
       /\ personalList' = r.lst
       /\ stack' = Below \o Running([Top EXCEPT !.recs = Tail(Top.recs)])
                     \o r.fire
  /\ hasList' = TRUE
  /\ UNCHANGED << listeners, pageIndex, lastCmd, calls, behaviour, seen >>
  /\ UNCHANGED parserVars
  /\ UNCHANGED menuVars
  /\ UNCHANGED windowVars

\* the running command removes its next id
RemoveNext ==
  /\ stack # <<>>
  /\ Top.t = "remove"
  /\ \E r \in { RemoveStep(personalList, Head(Top.ids)) } :
       /\ personalList' = r.lst
       /\ stack' = Below \o Running([Top EXCEPT !.ids = Tail(Top.ids)])
                     \o r.fire
  /\ hasList' = TRUE
  /\ UNCHANGED << listeners, pageIndex, lastCmd, calls, behaviour, seen >>
  /\ UNCHANGED parserVars
  /\ UNCHANGED menuVars
  /\ UNCHANGED windowVars

\* what a callback of behaviour b starts when it is invoked with id
CallbackWork(b, id, pidx) ==
  IF b = "add" THEN Running(AddWork(<< id >>, 0, pidx))
  ELSE IF b = "remove" THEN Running(RemoveWork(<< id >>, 0, pidx))
  ELSE <<>>

\* the running dispatch invokes its next callback: cb(id)
InvokeNext ==
  /\ stack # <<>>
  /\ Top.t = "fire"
  /\ Len(calls) < MaxCalls
  /\ \E cb \in { Head(Top.cbs) } : \E b \in { BehaviourOf(Top.kind, Top.id, cb) } :
       /\ calls' = Append(calls, [kind |-> Top.kind, id |-> Top.id, cb |-> cb])
       /\ seen' = << [kind |-> Top.kind, id |-> Top.id, cb |-> cb,
                      present |-> IsPersonalAdded(JsStr(Top.id)),
                      undisturbed |-> ~Top.touched] >>
       /\ stack' = Below
                     \o Running([Top EXCEPT !.cbs = Tail(Top.cbs),
                                            !.touched = Top.touched \/ b # "none"])
                     \o CallbackWork(b, Top.id, pageIndex)
  /\ UNCHANGED << hasList, personalList, listeners, pageIndex, lastCmd,
                  behaviour >>
  /\ UNCHANGED parserVars
  /\ UNCHANGED menuVars
  /\ UNCHANGED windowVars

NextDispatch ==
  \/ OnPersonalAddedDoing
  \/ OnPersonalRemovedDoing
  \/ StartAdd
  \/ StartRemove
  \/ UpsertNext
  \/ RemoveNext
  \/ InvokeNext

SpecDispatch == Init /\ [][NextDispatch]_vars

----------------------------------------------------------------------------
(* Vocabulary of the properties *)

\* the ids of the entries of a list
IdSet(lst) == { lst[i].id : i \in 1..Len(lst) }

\* the entry of a list with the given id
EntryOf(lst, id) == lst[CHOOSE i \in 1..Len(lst) : lst[i].id = id]

\* the last record of recs with the given id
LastWithId(recs, id) ==
  recs[CHOOSE i \in 1..Len(recs) :
         recs[i].id = id /\ \A j \in (i + 1)..Len(recs) : recs[j].id # id]

\* a list without the entries whose id is in ids
Without(lst, ids) == SelectSeq(lst, LAMBDA r : r.id \notin ids)

IsPrefix(a, b) == Len(a) <= Len(b) /\ SubSeq(b, 1, Len(a)) = a

\* the callbacks registered for an id, in registration order
AddedFor(id) == IF id \in DOMAIN listeners THEN listeners[id].added ELSE <<>>

RemovedFor(id) ==
  IF id \in DOMAIN listeners THEN listeners[id].removed ELSE <<>>

\* each callback of cbs invoked once with id, in the order of cbs
CallsOf(kind, id, cbs) ==
  [k \in 1..Len(cbs) |-> [kind |-> kind, id |-> id, cb |-> cbs[k]]]

\* the records found for wantedId w on the current pages of events e, e+1, ...
RECURSIVE ScannedFor(_, _, _)
ScannedFor(e, w, pidx) ==
  IF e > Len(MapEvents) THEN <<>>
  ELSE (IF PageAt(e, pidx[e]) = <<>> THEN <<>> ELSE PageRecords(e, pidx[e], w))
         \o ScannedFor(e + 1, w, pidx)

RECURSIVE ScannedForAll(_, _)
ScannedForAll(args, pidx) ==
  IF args = <<>> THEN <<>>
  ELSE ScannedFor(1, << Head(args) >>, pidx) \o ScannedForAll(Tail(args), pidx)

\* the records a plugin command reads, in the order it reads them
RecordsRead(args, eid, pidx) ==
  IF args # <<>> THEN ScannedForAll(args, pidx)
  ELSE IF CurrentPage(eid, pidx) = <<>> THEN <<>>
  ELSE PageRecords(eid, pidx[eid], <<>>)

\* what a run of upserts of recs must invoke when the ids in present are
\* in the list: the added callbacks of each id at its first upsert
RECURSIVE AddedCalls(_, _)
AddedCalls(recs, present) ==
  IF recs = <<>> THEN <<>>
  ELSE LET id == Head(recs).id
       IN (IF id \in present THEN <<>> ELSE CallsOf("added", id, AddedFor(id)))
            \o AddedCalls(Tail(recs), present \cup {id})

\* the ids of recs that are not in present, in the order they first occur
RECURSIVE NewIds(_, _)
NewIds(recs, present) ==
  IF recs = <<>> THEN <<>>
  ELSE LET id == Head(recs).id
       IN (IF id \in present THEN <<>> ELSE << id >>)
            \o NewIds(Tail(recs), present \cup {id})

\* what a run of removals of ids must invoke when the ids in present are
\* in the list: the removed callbacks of each id that is there
RECURSIVE RemovedCalls(_, _)
RemovedCalls(ids, present) ==
  IF ids = <<>> THEN <<>>
  ELSE (IF Head(ids) \in present
        THEN CallsOf("removed", Head(ids), RemovedFor(Head(ids))) ELSE <<>>)
         \o RemovedCalls(Tail(ids), present \ {Head(ids)})

\* the step is a plugin command: a command leaves the callbacks and the
\* pages of the events as they are, every other step changes one of them
IsCommand == listeners' = listeners /\ pageIndex' = pageIndex

\* the step is the AddPersonalToList / RemovePersonalFromList command that
\* lastCmd records after it
IsAdd == IsCommand /\ lastCmd'.name = "AddPersonalToList"

IsRemove == IsCommand /\ lastCmd'.name = "RemovePersonalFromList"

----------------------------------------------------------------------------
(* C1 *)

\* C1: an upsert of a record whose id is not in the list appends the record
\* and invokes exactly the onPersonalAdded callbacks registered for that id,
\* each once, in registration order, with the id; an upsert of an id that is
\* already in the list invokes nothing.  Per command: the callbacks invoked
\* are those of the ids new to the list, at their first upsert, and the new
\* ids are appended in that order; registrations only append to a table.
AddedCallbacksFireOnInsert ==
  [][ /\ \A id \in DOMAIN listeners :
           /\ id \in DOMAIN listeners'
           /\ IsPrefix(listeners[id].added, listeners'[id].added)
           /\ IsPrefix(listeners[id].removed, listeners'[id].removed)
      /\ IsAdd =>
           \E recs \in { RecordsRead(lastCmd'.args, lastCmd'.ev, pageIndex) } :
           \E news \in { NewIds(recs, IdSet(personalList)) } :
              /\ calls' = AddedCalls(recs, IdSet(personalList))
              /\ IdsOf(personalList') = IdsOf(personalList) \o news
              /\ \A k \in 1..Len(news) :
                   \E j \in 1..Len(recs) :
                     personalList'[Len(personalList) + k] = recs[j]
    ]_vars

\* an AddPersonalToList has invoked two callbacks of one id, one after the
\* other
AddedCallbacksWitness ==
  /\ lastCmd.name = "AddPersonalToList"
  /\ Len(calls) = 2
  /\ calls[1].id = calls[2].id
  /\ calls[1].cb # calls[2].cb
  /\ calls[1].kind = "added"

----------------------------------------------------------------------------
(* C2 *)

\* C2: RemovePersonalFromList <id> on an id in the list deletes that entry
\* and invokes exactly the onPersonalRemoved callbacks of that id, each once,
\* in registration order, with the id; on an id that is not in the list it
\* leaves the list as it is and invokes nothing.
RemoveFiresRemovedCallbacks ==
  [][ IsRemove /\ Len(lastCmd'.args) = 1 =>
        LET id == lastCmd'.args[1]
        IN IF id \in IdSet(personalList)
           THEN /\ personalList' = Without(personalList, {id})
                /\ Len(personalList') = Len(personalList) - 1
                /\ calls' = CallsOf("removed", id, RemovedFor(id))
           ELSE /\ personalList' = personalList
                /\ calls' = <<>>
    ]_vars

\* a RemovePersonalFromList <id> has invoked a removal callback
RemoveFiresWitness ==
  /\ lastCmd.name = "RemovePersonalFromList"
  /\ Len(lastCmd.args) = 1
  /\ calls # <<>>
  /\ calls[1].kind = "removed"
  /\ calls[1].id = lastCmd.args[1]

----------------------------------------------------------------------------
(* C3 *)

\* the numbers isPersonalAdded is asked about, with their decimal strings
QueryStrings ==
  [n \in {0, 1, 2, 12} |->
     IF n = 0 THEN << "0" >> ELSE IF n = 1 THEN << "1" >>
     ELSE IF n = 2 THEN << "2" >> ELSE << "1", "2" >>]

\* C3: isPersonalAdded(n) for a number n equals isPersonalAdded(String(n)),
\* and is true exactly when the list holds an entry whose id is String(n):
\* false before any list exists, it becomes true only by an
\* AddPersonalToList and false only by a RemovePersonalFromList.
IsPersonalAddedReflectsList ==
  /\ [](\A n \in DOMAIN QueryStrings :
          /\ IsPersonalAdded(JsNum(n)) = IsPersonalAdded(JsStr(QueryStrings[n]))
          /\ IsPersonalAdded(JsNum(n)) <=>
               \E i \in 1..Len(personalList) :
                 personalList[i].id = QueryStrings[n]
          /\ ~hasList => ~IsPersonalAdded(JsNum(n)))
  /\ [][ \A n \in DOMAIN QueryStrings :
           /\ ~IsPersonalAdded(JsNum(n)) /\ IsPersonalAdded(JsNum(n))' => IsAdd
           /\ IsPersonalAdded(JsNum(n)) /\ ~IsPersonalAdded(JsNum(n))' => IsRemove
       ]_vars

\* after a removal, NPC 1 is in the list and NPC 2 is not
IsPersonalAddedWitness ==
  /\ lastCmd.name = "RemovePersonalFromList"
  /\ IsPersonalAdded(JsNum(1))
  /\ IsPersonalAdded(JsStr(S1))
  /\ ~IsPersonalAdded(JsNum(2))

----------------------------------------------------------------------------
(* C4 *)

\* C4: no two entries of the personal list have the same id, whatever
\* commands ran; after an AddPersonalToList the entry of every id it read
\* holds the fields of the last record read with that id.
ListIdsAreUnique ==
  /\ [](\A i, j \in 1..Len(personalList) :
          personalList[i].id = personalList[j].id => i = j)
  /\ [][ IsAdd =>
           LET recs == RecordsRead(lastCmd'.args, lastCmd'.ev, pageIndex)
           IN \A id \in IdSet(recs) :
                /\ id \in IdSet(personalList')
                /\ EntryOf(personalList', id) = LastWithId(recs, id)
       ]_vars

\* an AddPersonalToList without arguments read three records, two of them
\* with the same id, and the list holds two entries
ListIdsWitness ==
  /\ lastCmd.name = "AddPersonalToList"
  /\ lastCmd.args = <<>>
  /\ Len(RecordsRead(lastCmd.args, lastCmd.ev, pageIndex)) = 3
  /\ Len(personalList) = 2

----------------------------------------------------------------------------
(* C5 *)

\* a comment command whose trimmed text opens a block
OpensBlock(cmd) == cmd.code \in {108, 408} /\ IsTypeNpc(Trim(cmd.text))

\* the place of the last block opener in a list of commands, 0 for none
LastOpen(cmds) ==
  IF \E i \in 1..Len(cmds) : OpensBlock(cmds[i])
  THEN CHOOSE i \in 1..Len(cmds) :
         OpensBlock(cmds[i]) /\ \A j \in (i + 1)..Len(cmds) : ~OpensBlock(cmds[j])
  ELSE 0

\* a comment command that is an ID: line
IsIdLine(cmd) == cmd.code \in {108, 408} /\ StartsWith(Trim(cmd.text), "ID:")

\* C5: parseNpcBlocks emits a record for a block exactly when the block was
\* opened by a Type: NPC line and, at its end (the next Type: NPC line or the
\* end of the input), its id and its name are both non-empty (and, with a
\* wantedId, its id is the wanted one); a block with no ID: line has an empty
\* id, so it yields nothing; every emitted record has an id and a name.
RecordsNeedIdAndName ==
  /\ [](/\ \A k \in 1..Len(results) :
             /\ results[k].typeIsNPC
             /\ results[k].id # <<>>
             /\ results[k].name # <<>>
        /\ (npc # <<>>) <=> (LastOpen(list) # 0)
        /\ /\ npc # <<>>
           /\ \A i \in (LastOpen(list) + 1)..Len(list) : ~IsIdLine(list[i])
           => npc[1].id = <<>>)
  /\ [][ LET ends == \/ pc = "scan" /\ pc' = "done"
                     \/ /\ Len(list') = Len(list) + 1
                        /\ OpensBlock(list'[Len(list')])
             full == /\ npc # <<>>
                     /\ npc[1].id # <<>>
                     /\ npc[1].name # <<>>
                     /\ wantedId = <<>> \/ npc[1].id = wantedId[1]
         IN results' = IF ends /\ full THEN Append(results, npc[1]) ELSE results
       ]_vars

\* the input ended after a block that was emitted and a block with no ID:
\* line, which was not
RecordsNeedWitness ==
  /\ pc = "done"
  /\ Len(results) = 1
  /\ npc # <<>>
  /\ npc[1].id = <<>>

----------------------------------------------------------------------------
(* C6 *)

\* the drafts of the blocks of a page, each as it is when its block ends
RECURSIVE DraftsFrom(_, _)
DraftsFrom(ps, cmds) ==
  IF cmds = <<>> THEN ps.npc
  ELSE (IF OpensBlock(Head(cmds)) THEN ps.npc ELSE <<>>)
         \o DraftsFrom(ParseStep(ps, Head(cmds), <<>>), Tail(cmds))

BlockDrafts(cmds) == DraftsFrom(ParserStart, cmds)

\* the ids the blocks of a page give in their ID: lines
BlockIds(cmds) ==
  { BlockDrafts(cmds)[k].id : k \in 1..Len(BlockDrafts(cmds)) } \ { <<>> }

\* the fields a block may supply
FieldNames == { "name", "category", "faceName", "iconIndexes", "notes" }

\* C6: an NPC may be split over several blocks of a page that each begin
\* with Type: NPC and ID: <same id>; after AddPersonalToList the list holds
\* an entry for that id that carries the fields supplied in all of them
\* (each field as the last block that supplies it gives it).
SplitBlocksAreMerged ==
  [][ /\ IsAdd
      /\ lastCmd'.args = <<>>
      /\ CurrentPage(lastCmd'.ev, pageIndex) # <<>>
      => LET ds == BlockDrafts(CurrentPage(lastCmd'.ev, pageIndex)[1])
         IN \A id \in BlockIds(CurrentPage(lastCmd'.ev, pageIndex)[1]) :
              Cardinality({ k \in 1..Len(ds) : ds[k].id = id }) >= 2
              => /\ id \in IdSet(personalList')
                 /\ \A f \in FieldNames : \A k \in 1..Len(ds) :
                      /\ ds[k].id = id
                      /\ ds[k][f] # <<>>
                      /\ \A j \in (k + 1)..Len(ds) :
                           ds[j].id = id => ds[j][f] = <<>>
                      => EntryOf(personalList', id)[f] = ds[k][f]
    ]_vars

----------------------------------------------------------------------------
(* C7 *)

\* C7 as claimed: AddPersonalToList <ids> finds a valid record with a given
\* id on any page of any event of the map, and upserts it.
AddGivenScansAllPages ==
  [][ IsAdd /\ lastCmd'.args # <<>> =>
        \A k \in 1..Len(lastCmd'.args) :
          LET a == lastCmd'.args[k]
          IN /\ a # <<>>
             /\ \E e \in EventIds : \E i \in 1..Len(MapEvents[e].pages) :
                  ParsedPages[e][i][<< a >>] # <<>>
             => a \in IdSet(personalList')
    ]_vars

\* C7, amended: AddPersonalToList <ids> scans, for each given id, the
\* current page of every event of the map: when the current page of some
\* event defines a valid record with the id, the list then holds an entry
\* with that id, with the fields of the last such record in the order of
\* the scan.
AddGivenScansCurrentPages ==
  [][ IsAdd /\ lastCmd'.args # <<>> =>
        \A k \in 1..Len(lastCmd'.args) :
          LET a == lastCmd'.args[k]
              recs == ScannedFor(1, << a >>, pageIndex)
          IN a # <<>> /\ recs # <<>>
             => /\ a \in IdSet(personalList')
                /\ EntryOf(personalList', a) = recs[Len(recs)]
    ]_vars

\* AddPersonalToList 2 has put NPC 2, which only the second event defines,
\* into the list
AddGivenWitness ==
  /\ lastCmd.name = "AddPersonalToList"
  /\ lastCmd.args = << S2 >>
  /\ S2 \in IdSet(personalList)
  /\ ScannedFor(1, << S2 >>, pageIndex) # <<>>
  /\ ScannedFor(2, << S2 >>, pageIndex) = ScannedFor(1, << S2 >>, pageIndex)

----------------------------------------------------------------------------
(* C8 *)

\* the elements of a sequence
Range(a) == { a[k] : k \in 1..Len(a) }

\* C8: RemovePersonalFromList <id1> ... <idn> removes each given id on its
\* own: afterwards none of them is in the list and no other entry has
\* changed, whichever were there before; the removal callbacks are invoked
\* once for each distinct given id that was in the list, in the order of the
\* arguments, also when an id is given twice, and never for an id that was
\* not there.
RemoveGivenRemovesEach ==
  [][ IsRemove /\ lastCmd'.args # <<>> =>
        /\ \A k \in 1..Len(lastCmd'.args) :
             lastCmd'.args[k] \notin IdSet(personalList')
        /\ personalList' = Without(personalList, Range(lastCmd'.args))
        /\ calls' = RemovedCalls(lastCmd'.args, IdSet(personalList))
    ]_vars

\* a removal of an id that was not in the list, then of one that was and
\* has a callback
RemoveGivenWitness ==
  /\ lastCmd.name = "RemovePersonalFromList"
  /\ Len(lastCmd.args) = 2
  /\ lastCmd.args[1] # lastCmd.args[2]
  /\ RemovedFor(lastCmd.args[1]) # <<>>
  /\ calls = CallsOf("removed", lastCmd.args[2], RemovedFor(lastCmd.args[2]))
  /\ calls # <<>>

----------------------------------------------------------------------------
(* C9 *)

\* the invocations among cs that are removals of id
RemovalsOf(cs, id) ==
  SelectSeq(cs, LAMBDA c : c.kind = "removed" /\ c.id = id)

\* C9: RemovePersonalFromList without arguments removes all NPCs defined on
\* the current page of the event: afterwards no id that a Type: NPC block
\* of the page gives in an ID: line is in the list, the removal callbacks
\* were invoked once for each id removed, and the other entries are as they
\* were.
RemoveCurrentRemovesPageNpcs ==
  [][ /\ IsRemove
      /\ lastCmd'.args = <<>>
      /\ CurrentPage(lastCmd'.ev, pageIndex) # <<>>
      => LET ids == BlockIds(CurrentPage(lastCmd'.ev, pageIndex)[1])
         IN /\ \A id \in ids : id \notin IdSet(personalList')
            /\ Without(personalList', ids) = Without(personalList, ids)
            /\ \A id \in IdSet(personalList) :
                 RemovalsOf(calls', id) =
                   IF id \in IdSet(personalList') THEN <<>>
                   ELSE CallsOf("removed", id, RemovedFor(id))
    ]_vars

----------------------------------------------------------------------------
(* C10 *)

\* the places of the entries of an Icon: value that parseInt reads a number
\* from
NumericPlaces(v) ==
  { i \in 1..Len(SplitComma(v)) : ~ParseInt(Trim(SplitComma(v)[i])).nan }

\* r holds the numbers of the first three numeric entries of v, in order
IsFirstThreeNumeric(r, v) ==
  /\ Len(r) = IF Cardinality(NumericPlaces(v)) < 3
              THEN Cardinality(NumericPlaces(v)) ELSE 3
  /\ \A k \in 1..Len(r) :
       \E i \in NumericPlaces(v) :
         /\ Cardinality({ j \in NumericPlaces(v) : j <= i }) = k
         /\ r[k] = ParseInt(Trim(SplitComma(v)[i])).val

\* C10: the icon list of the draft, of every record emitted and of every
\* entry of the personal list has at most 3 elements; after an Icon: line it
\* holds the numbers of the first three entries of the comma-separated value
\* that parseInt reads a number from, in their order (Icon: 1,2,3,4,5 gives
\* [1,2,3], an empty value gives []).
IconsAtMostThree ==
  /\ \A k \in 1..Len(results) : Len(results[k].iconIndexes) <= 3
  /\ \A k \in 1..Len(personalList) : Len(personalList[k].iconIndexes) <= 3
  /\ npc # <<>> => Len(npc[1].iconIndexes) <= 3
  /\ Len(list) > Len(IconPrefix) =>
       LET v == Tail(list[Len(list)].text)
       IN /\ IsFirstThreeNumeric(npc[1].iconIndexes, v)
          /\ v = << "1", ",", "2", ",", "3", ",", "4", ",", "5" >>
             => npc[1].iconIndexes = << 1, 2, 3 >>
          /\ v = <<>> => npc[1].iconIndexes = <<>>
          /\ pc # "scan" => results = << npc[1] >>
          /\ pc = "stored" => personalList = << npc[1] >>

\* the list holds the three icons of Icon: 1,2,3,4,5
IconsWitness ==
  /\ pc = "stored"
  /\ list[Len(list)].text =
       << "Icon:", "1", ",", "2", ",", "3", ",", "4", ",", "5" >>
  /\ personalList[1].iconIndexes = << 1, 2, 3 >>

----------------------------------------------------------------------------
(* C11 *)

\* the second comma-separated part of a Face: value, <<>> when there is none
FaceSecondPart(v) ==
  IF Len(SplitComma(v)) >= 2 THEN << SplitComma(v)[2] >> ELSE <<>>

\* C11: for every Face: line the parsed faceIndex is an integer: the value
\* of the second comma-separated part when that part parses as an integer,
\* and 0 when the part is missing or does not parse (Face: Actor1,3 gives 3,
\* Face: Actor1 gives 0); no record holds a faceIndex that is no integer.
FaceIndexIsInteger ==
  /\ \A k \in 1..Len(results) : ~results[k].faceIndex.nan
  /\ \A k \in 1..Len(personalList) : ~personalList[k].faceIndex.nan
  /\ Len(list) > Len(IconPrefix) =>
       LET v == Tail(list[Len(list)].text)
           second == FaceSecondPart(v)
       IN /\ ~npc[1].faceIndex.nan
          /\ npc[1].faceIndex.val =
               IF second = <<>> \/ ParseInt(second[1]).nan THEN 0
               ELSE ParseInt(second[1]).val
          /\ v = << "A", "c", "t", "o", "r", "1", ",", "3" >>
             => npc[1].faceIndex = Num(3)
          /\ v = << "A", "c", "t", "o", "r", "1" >>
             => npc[1].faceIndex = Num(0)

----------------------------------------------------------------------------
(* C12 *)

\* the keywords of the field lines
FieldKeywords == { "ID:", "Name:", "Category:", "Face:", "Icon:", "Details:" }

\* a comment command
IsComment(cmd) == cmd.code \in {108, 408}

\* the step consumes one more command of the page
ConsumesLine == pc = "scan" /\ Len(list') = Len(list) + 1

\* a comment line that neither opens a block nor starts with a field keyword
IsPlainLine(cmd) ==
  /\ IsComment(cmd)
  /\ ~OpensBlock(cmd)
  /\ \A kw \in FieldKeywords : ~StartsWith(Trim(cmd.text), kw)

\* the notes after each line read on an open draft: a Details: line sets
\* them to its trimmed remainder, a plain comment line in continuation mode
\* appends "\n" and as(text), any other line leaves them
NotesFollow(as(_)) ==
  ConsumesLine /\ npc # <<>> =>
    LET cmd == list'[Len(list')]
    IN ~OpensBlock(cmd) =>
         npc'[1].notes =
           IF IsComment(cmd) /\ StartsWith(Trim(cmd.text), "Details:")
           THEN Trim(Tail(Trim(cmd.text)))
           ELSE IF IsPlainLine(cmd) /\ readingNote
           THEN npc[1].notes \o << "\n" >> \o as(cmd.text)
           ELSE npc[1].notes

\* the text of a line as it stands
Untrimmed(text) == text

\* C12 as claimed: a Details: line sets the description to its trimmed
\* remainder and each following unrecognized comment line is appended as
\* "\n" followed by that line untrimmed.
DetailsAppendsUntrimmedLines == [][NotesFollow(Untrimmed)]_vars

\* C12, amended: a Details: line sets the description to its trimmed
\* remainder and each following unrecognized comment line is appended as
\* "\n" followed by that line trimmed; Details: d followed by the comment
\* line t gives "d\nt", and a Details: line alone gives its trimmed
\* remainder.
DetailsAppendsTrimmedLines ==
  /\ [][NotesFollow(Trim)]_vars
  /\ [](/\ list = << CType, CDetails(<< "d" >>) >>
           => npc[1].notes = << "d" >>
        /\ list = << CType, CDetails(<< "d" >>), CText(<< " ", "t", " " >>) >>
           => npc[1].notes = << "d", "\n", "t" >>)

\* a description of three lines, the last two written with blanks around
DetailsWitness ==
  /\ npc # <<>>
  /\ npc[1].notes = << "d", "\n", "t", "\n", "t" >>
  /\ list[Len(list)].text = << " ", "t", " " >>

----------------------------------------------------------------------------
(* C13 *)

\* the block with the field lines read so far, written in the order of the
\* plugin help
InHelpOrder ==
  << CType >> \o SelectSeq(OrderLines, LAMBDA c : c \in Range(list))

\* C13: within a block that starts with a Type: NPC line, the ID, Name,
\* Category, Face, Icon and single-line Details lines can appear in any
\* order: whatever the order the lines were read in, the draft, and the
\* records returned at the end, are those of the same lines in the order of
\* the plugin help.
FieldOrderDoesNotMatter ==
  /\ npc = ParseAll(ParserStart, InHelpOrder, <<>>).npc
  /\ pc = "done" => results = ParseNpcBlocks(InHelpOrder, <<>>)

\* the six field lines were read in the reverse of the order of the help and
\* gave the record of the help
FieldOrderWitness ==
  /\ pc = "done"
  /\ Len(list) = Len(OrderLines) + 1
  /\ \A k \in 1..Len(OrderLines) : list[k + 1] = OrderLines[Len(OrderLines) + 1 - k]
  /\ Len(results) = 1
  /\ results[1].id = S1
  /\ results[1].faceIndex = Num(3)
  /\ results[1].iconIndexes = << 1, 2, 3 >>
  /\ results[1].notes = << "d" >>

----------------------------------------------------------------------------
(* C14 *)

\* the main menu, opened now, would list the Personals command
MenuOpens == ENABLED (OpenMainMenu /\ hasCommand')

\* C14: on the map, while no EnablePersonalMenu or DisablePersonalMenu has
\* run in the game, the Personals menu can be opened exactly when
\* enableInitial is true, and that by the open-menu key as well as by the
\* main menu's command; after EnablePersonalMenu both open it, after
\* DisablePersonalMenu neither does.
MenuAccessFollowsParameter ==
  scene = <<>> =>
    /\ toggled = "none" =>
         /\ ENABLED PressKey <=> enableInitial
         /\ MenuOpens <=> enableInitial
    /\ toggled = "enable" => ENABLED PressKey /\ MenuOpens
    /\ toggled = "disable" => ~ENABLED PressKey /\ ~MenuOpens

----------------------------------------------------------------------------
(* C15 *)

\* C15: the registry is empty at the start of every game: no entries and no
\* listeners, so that an add or a remove of any id in the new game would
\* invoke no callback registered in an earlier one.
NewGameStartsEmpty ==
  [][ NewGame =>
        /\ ~hasList'
        /\ personalList' = <<>>
        /\ listeners' = NoListeners
        /\ \A v \in IdValues :
             /\ TriggerPersonalAdded(String(v))' = <<>>
             /\ TriggerPersonalRemoved(String(v))' = <<>>
    ]_vars

----------------------------------------------------------------------------
(* C16 *)

\* a comment line that starts with the keyword kw
IsFieldLine(cmd, kw) == IsComment(cmd) /\ StartsWith(Trim(cmd.text), kw)

\* the lines read so far end with a Details: line and the plain comment
\* lines that continue it
InDetails ==
  \E k \in 1..Len(list) :
    /\ IsFieldLine(list[k], "Details:")
    /\ \A j \in (k + 1)..Len(list) : IsPlainLine(list[j])

\* C16: each recognized field line (ID:, Name:, Category:, Face:, Icon:)
\* ends continuation mode: after a Details: line followed by one of them, a
\* later unrecognized comment line is ignored and is not appended to the
\* description.
FieldLinesEndContinuation ==
  [][ ConsumesLine /\ npc # <<>> =>
        LET cmd == list'[Len(list')]
        IN /\ (\E kw \in FieldKeywords \ { "Details:" } : IsFieldLine(cmd, kw))
              => ~readingNote'
           /\ IsPlainLine(cmd) /\ ~InDetails => npc' = npc
    ]_vars

----------------------------------------------------------------------------
(* C17 *)

\* a command that is no comment was read after the last Details: line
NoteBroken ==
  \E k \in 1..Len(list) :
    /\ ~IsComment(list[k])
    /\ \A j \in (k + 1)..Len(list) : ~IsFieldLine(list[j], "Details:")

\* C17: a command that is no comment ends continuation mode and neither
\* closes nor discards the draft: it leaves the draft and the results as
\* they are, plain comment lines after it are not appended to the
\* description, ID: and Name: lines after it still write to the same draft,
\* and the results only grow at a Type: NPC line or at the end of the input.
NonCommentOnlyEndsContinuation ==
  [][ /\ ConsumesLine =>
           LET cmd == list'[Len(list')]
               rest == Trim(Tail(Trim(cmd.text)))
           IN /\ ~IsComment(cmd) =>
                   ~readingNote' /\ npc' = npc /\ results' = results
              /\ IsPlainLine(cmd) /\ NoteBroken => npc' = npc
              /\ npc # <<>> /\ IsFieldLine(cmd, "ID:")
                 => npc'[1] = [npc[1] EXCEPT !.id = rest]
              /\ npc # <<>> /\ IsFieldLine(cmd, "Name:")
                 => npc'[1] = [npc[1] EXCEPT !.name = rest]
      /\ results' # results =>
           \/ pc = "scan" /\ pc' = "done"
           \/ ConsumesLine /\ OpensBlock(list'[Len(list')])
    ]_vars

\* a block whose Name: line comes after a command that is no comment gave
\* one record, with the ID of before and the Name of after
NonCommentWitness ==
  /\ pc = "done"
  /\ list = << CType, CId(S1), CShowText, CName(<< "a" >>) >>
  /\ Len(results) = 1
  /\ results[1].id = S1
  /\ results[1].name = << "a" >>

----------------------------------------------------------------------------
(* C18 *)

\* the lines of the block being read: from the last Type: NPC line on
OwnBlock == SubSeq(list, LastOpen(list), Len(list))

\* the record a Type: NPC line starts with
FreshDraft ==
  [ typeIsNPC |-> TRUE, id |-> <<>>, name |-> <<>>, category |-> <<>>,
    faceName |-> <<>>, faceIndex |-> [nan |-> FALSE, val |-> 0],
    iconIndexes |-> <<>>, notes |-> <<>> ]

\* C18: a Type: NPC line finalizes the draft before it and starts a new
\* draft with every field reset and continuation mode off; the draft, the
\* continuation mode and hence each record emitted depend only on the lines
\* of the block itself, and before the first Type: NPC line there is no
\* draft and no record.
TypeLineStartsAfresh ==
  /\ [](/\ LastOpen(list) = 0 => npc = <<>> /\ results = <<>> /\ ~readingNote
        /\ LastOpen(list) # 0 =>
             /\ npc = ParseAll(ParserStart, OwnBlock, <<>>).npc
             /\ readingNote = ParseAll(ParserStart, OwnBlock, <<>>).readingNote)
  /\ [][ ConsumesLine /\ OpensBlock(list'[Len(list')]) =>
           /\ npc' = << FreshDraft >>
           /\ ~readingNote'
           /\ \/ results' = results
              \/ npc # <<>> /\ results' = Append(results, npc[1])
       ]_vars

\* a second block without a line of its own has an empty draft and gave no
\* record, the first gave its own
TypeLineWitness ==
  /\ pc = "done"
  /\ list = << CType, CId(S1), CName(<< "a" >>), CType >>
  /\ Len(results) = 1
  /\ npc = << FreshDraft >>

----------------------------------------------------------------------------
(* C19 *)

\* C19: an upsert of a record whose id is already in the list replaces the
\* fields of that entry by exactly those of the incoming record, keeps the
\* length of the list and the order of the ids, and leaves every other entry
\* as it is.  Per command: every entry that was in the list keeps its place
\* and its id; it holds exactly the last record read with its id, or, when
\* no record read has its id, what it held; the list grows only by ids
\* that were not in it.
UpsertOverwritesInPlace ==
  [][ IsAdd =>
        \E recs \in { RecordsRead(lastCmd'.args, lastCmd'.ev, pageIndex) } :
          /\ Len(personalList') >= Len(personalList)
          /\ IdSet(recs) \subseteq IdSet(personalList)
             => Len(personalList') = Len(personalList)
          /\ \A i \in 1..Len(personalList) :
               /\ personalList'[i].id = personalList[i].id
               /\ personalList'[i] =
                    IF personalList[i].id \in IdSet(recs)
                    THEN LastWithId(recs, personalList[i].id)
                    ELSE personalList[i]
    ]_vars

\* NPC 1, added first with a name and icons, was overwritten in its place by
\* a record with another name and no icon
UpsertOverwritesWitness ==
  /\ lastCmd = [name |-> "AddPersonalToList", args |-> <<>>, ev |-> 2]
  /\ Len(personalList) = 2
  /\ personalList[1].id = S1
  /\ personalList[1].name = << "c" >>
  /\ personalList[1].iconIndexes = <<>>
  /\ personalList[2].id = S2

----------------------------------------------------------------------------
(* C20 *)

\* the records of recs whose id is id, in their order
WithId(recs, id) == SelectSeq(recs, LAMBDA r : r.id = id)

\* C20: parseNpcBlocks with a wantedId returns exactly the records of the
\* unfiltered parse of the same lines whose id equals wantedId, in the same
\* order; hence AddPersonalToList <id1> ... <idn> inserts or updates only
\* entries whose id is one of the given ids, and every other entry of the
\* list keeps its fields and its place.
AddGivenTouchesOnlyGivenIds ==
  [][ IsAdd /\ lastCmd'.args # <<>> =>
        /\ \A e \in EventIds : \A k \in 1..Len(lastCmd'.args) :
             PageAt(e, pageIndex[e]) # <<>> =>
               PageRecords(e, pageIndex[e], << lastCmd'.args[k] >>) =
                 WithId(PageRecords(e, pageIndex[e], <<>>), lastCmd'.args[k])
        /\ Len(personalList') >= Len(personalList)
        /\ \A i \in 1..Len(personalList) :
             personalList[i].id \notin Range(lastCmd'.args)
             => personalList'[i] = personalList[i]
        /\ \A i \in (Len(personalList) + 1)..Len(personalList') :
             personalList'[i].id \in Range(lastCmd'.args)
    ]_vars

----------------------------------------------------------------------------
(* C21 *)

\* the sequences of a sequence of sequences, one after the other
RECURSIVE Concat(_)
Concat(ss) == IF ss = <<>> THEN <<>> ELSE Head(ss) \o Concat(Tail(ss))

\* C21: after setText the pages are the wrapped lines cut into consecutive
\* pages of linesPerPage = max(1, floor(contentsHeight / lineHeight) - 1)
\* lines: every page but the last has linesPerPage lines, the last has
\* between 1 and linesPerPage, the pages one after the other are the wrapped
\* lines, linesPerPage lines give one page and no page indicator, and
\* linesPerPage + 1 lines give two pages and the indicator
PagesSliceTheLines ==
  lastDesc.op = "setText" =>
    \E k \in { n \in 1..(geom.height + 1) :
                 n = (IF geom.height \div geom.lh >= 3
                      THEN geom.height \div geom.lh - 1 ELSE 1) } :
      /\ Len(pages) >= 1
      /\ \A i \in 1..(Len(pages) - 1) : Len(pages[i]) = k
      /\ Len(pages[Len(pages)]) \in 1..k
      /\ Concat(pages) = lastDesc.lines
      /\ Len(lastDesc.lines) = k => Len(pages) = 1 /\ ~indicator
      /\ Len(lastDesc.lines) = k + 1 => Len(pages) = 2 /\ indicator

\* a text of three lines in a window whose pages hold two
PagesSliceWitness ==
  /\ lastDesc.op = "setText"
  /\ geom.height \div geom.lh = 3
  /\ Len(lastDesc.lines) = 3
  /\ Len(pages) = 2
  /\ Len(pages[1]) = 2
  /\ Len(pages[2]) = 1
  /\ indicator

----------------------------------------------------------------------------
(* C22 *)

\* the words of a wrapped line: each is followed by one blank
LineWords(line) ==
  LET p == SplitBlank(line) IN SubSeq(p, 1, Len(p) - 1)

\* the first n words of a line, each with its blank
LineUpTo(line, n) ==
  Concat([j \in 1..n |-> LineWords(line)[j] \o << " " >>])

\* C22: setText wraps greedily on single blanks.  Every wrapped line is its
\* words, each followed by a blank; the words of the lines, in order, are
\* the words of the text, each once; a word was put on the line it is on
\* after other words only where the line with it measures at most the
\* available width, and opens a line only where the line before with it
\* would measure more; so a line of more than one word measures at most
\* the available width
WrapIsGreedy ==
  lastDesc.op = "setText" =>
    \E lines \in { lastDesc.lines } :
      /\ \A i \in 1..Len(lines) :
           /\ Len(LineWords(lines[i])) >= 1
           /\ lines[i] = LineUpTo(lines[i], Len(LineWords(lines[i])))
      /\ Concat([i \in 1..Len(lines) |-> LineWords(lines[i])])
           = SplitBlank(lastDesc.text)
      /\ \A i \in 1..Len(lines) : \A n \in 2..Len(LineWords(lines[i])) :
           TextWidth(LineUpTo(lines[i], n)) <= geom.maxW
      /\ \A i \in 2..Len(lines) :
           TextWidth(lines[i - 1] \o LineUpTo(lines[i], 1)) > geom.maxW
      /\ \A i \in 1..Len(lines) :
           Len(LineWords(lines[i])) > 1 => TextWidth(lines[i]) <= geom.maxW

\* a text wrapped into a line of two words that fills the width exactly and
\* a line of one word
WrapWitness ==
  /\ lastDesc.op = "setText"
  /\ lastDesc.text = << "a", " ", "a", " ", "w" >>
  /\ geom.maxW = 4
  /\ lastDesc.lines = << << "a", " ", "a", " " >>, << "w", " " >> >>

----------------------------------------------------------------------------
(* C23 *)

\* the description window turns its pages: it is active and has two pages
\* or more
Turns == descActive /\ Len(pages) >= 2

\* C23: the page index is 0 after every setText and every clear, it is
\* always between 0 and max(0, pageCount - 1), a next-page input adds one
\* to it only below the last page, a previous-page input takes one from it
\* only above the first page, and an input at a boundary, with fewer than
\* two pages or in an inactive window leaves it as it was
PageIndexStaysInRange ==
  /\ pageIdx >= 0
  /\ pageIdx <= (IF Len(pages) >= 1 THEN Len(pages) - 1 ELSE 0)
  /\ lastDesc.op \in { "setText", "clear" } => pageIdx = 0
  /\ lastDesc.op = "update" /\ lastDesc.next /\ ~lastDesc.prev =>
       pageIdx = (IF Turns /\ lastDesc.from < Len(pages) - 1
                  THEN lastDesc.from + 1 ELSE lastDesc.from)
  /\ lastDesc.op = "update" /\ lastDesc.prev /\ ~lastDesc.next =>
       pageIdx = (IF Turns /\ lastDesc.from > 0
                  THEN lastDesc.from - 1 ELSE lastDesc.from)
  /\ lastDesc.op = "update" /\ lastDesc.prev /\ lastDesc.next =>
       pageIdx = (IF Turns /\ lastDesc.from = 0 THEN 1 ELSE lastDesc.from)

\* a next-page input on the last of three pages
PageIndexWitness ==
  /\ lastDesc.op = "update"
  /\ lastDesc.next
  /\ ~lastDesc.prev
  /\ descActive
  /\ Len(pages) = 3
  /\ lastDesc.from = 2
  /\ pageIdx = 2

----------------------------------------------------------------------------
(* C25 *)

\* C25: whatever the contents height and the line height, refresh draws
\* every line of the page that is shown: the lines drawn are the lines of
\* the current page, none is cut off by the height guard of refresh
RefreshDrawsWholePage == drawn = PageShown(pages, pageIdx)

----------------------------------------------------------------------------
(* C26 *)

\* C26: onItemOk completes without an error in every state the list window
\* can be in, the empty list included: no handler has thrown, and details
\* mode is on only with the record of the selected row
OnItemOkCompletes ==
  /\ ~error
  /\ detailsActive => Item # <<>> /\ header = << HeaderOf(Item[1]) >>

----------------------------------------------------------------------------
(* C24 *)

\* the callback invoked last saw the list agree with its event: the id in
\* the list for an added callback, not in it for a removed callback
SawItsEvent == (seen[1].kind = "added") = seen[1].present

\* C24 as stated: whenever an onPersonalAdded callback for an id is invoked
\* isPersonalAdded(id) is true, and whenever an onPersonalRemoved callback
\* is invoked it is false, for every callback of the dispatch, also after
\* an earlier callback of the dispatch has run AddPersonalToList or
\* RemovePersonalFromList for that id
CallbacksSeeTheirEvent == seen # <<>> => SawItsEvent

\* C24, amended: whenever an onPersonalAdded callback for an id is invoked
\* isPersonalAdded(id) is true, and whenever an onPersonalRemoved callback
\* is invoked it is false, for every callback of a dispatch none of whose
\* earlier callbacks has run AddPersonalToList or RemovePersonalFromList
\* itself
UndisturbedCallbacksSeeTheirEvent ==
  seen # <<>> /\ seen[1].undisturbed => SawItsEvent

\* an added callback invoked in the dispatch that a removed callback
\* started by adding the id again
UndisturbedWitness ==
  /\ seen # <<>>
  /\ seen[1].kind = "added"
  /\ seen[1].undisturbed
  /\ seen[1].present
  /\ Len(calls) >= 2
  /\ calls[1].kind = "removed"

====
